---------------------------- MODULE Spec2Model ----------------------------
(***************************************************************************)
(* A model of the RESPB codec of protocol-bench: the binary command parser *)
(* (src/respb_parser.c) and serializer (src/respb_serializer.c) over the   *)
(* opcode catalogue of include/respb.h.                                    *)
(*                                                                         *)
(* Conventions.  A byte buffer is a sequence of numbers 0..255; the C      *)
(* offset o is element o+1 of the sequence.  A pointer into the parser's   *)
(* buffer is its offset from parser->buffer; a pointer that was not set to *)
(* a place in the buffer is a negative number.  size_t is 64 bits wide, so *)
(* pos + n cannot wrap for the 16- and 32-bit lengths the wire format      *)
(* carries, and is modelled as an unbounded integer.                       *)
(*                                                                         *)
(* Two callers are modelled.  Spec is a caller that parses a buffer it     *)
(* received (the replay loop of src/benchmark.c and the parser tests);     *)
(* SpecRT is a caller that serializes a command and parses the bytes       *)
(* produced (the round trip of tests/test_main.c).                         *)
(***************************************************************************)
EXTENDS Integers, Sequences, FiniteSets, TLC

(* Opcode constants of include/respb.h (values in decimal; the hex value is in the comment). *)
RESPB_OP_GET == 0  \* 0x0000
RESPB_OP_SET == 1  \* 0x0001
RESPB_OP_APPEND == 2  \* 0x0002
RESPB_OP_DECR == 3  \* 0x0003
RESPB_OP_DECRBY == 4  \* 0x0004
RESPB_OP_GETDEL == 5  \* 0x0005
RESPB_OP_GETEX == 6  \* 0x0006
RESPB_OP_GETRANGE == 7  \* 0x0007
RESPB_OP_GETSET == 8  \* 0x0008
RESPB_OP_INCR == 9  \* 0x0009
RESPB_OP_INCRBY == 10  \* 0x000A
RESPB_OP_INCRBYFLOAT == 11  \* 0x000B
RESPB_OP_MGET == 12  \* 0x000C
RESPB_OP_MSET == 13  \* 0x000D
RESPB_OP_MSETNX == 14  \* 0x000E
RESPB_OP_PSETEX == 15  \* 0x000F
RESPB_OP_SETEX == 16  \* 0x0010
RESPB_OP_SETNX == 17  \* 0x0011
RESPB_OP_SETRANGE == 18  \* 0x0012
RESPB_OP_STRLEN == 19  \* 0x0013
RESPB_OP_SUBSTR == 20  \* 0x0014
RESPB_OP_LCS == 21  \* 0x0015
RESPB_OP_DELIFEQ == 22  \* 0x0016
RESPB_OP_LPUSH == 64  \* 0x0040
RESPB_OP_RPUSH == 65  \* 0x0041
RESPB_OP_LPOP == 66  \* 0x0042
RESPB_OP_RPOP == 67  \* 0x0043
RESPB_OP_LLEN == 68  \* 0x0044
RESPB_OP_LRANGE == 69  \* 0x0045
RESPB_OP_LINDEX == 70  \* 0x0046
RESPB_OP_LSET == 71  \* 0x0047
RESPB_OP_LREM == 72  \* 0x0048
RESPB_OP_LTRIM == 73  \* 0x0049
RESPB_OP_LINSERT == 74  \* 0x004A
RESPB_OP_LPUSHX == 75  \* 0x004B
RESPB_OP_RPUSHX == 76  \* 0x004C
RESPB_OP_RPOPLPUSH == 77  \* 0x004D
RESPB_OP_LMOVE == 78  \* 0x004E
RESPB_OP_LMPOP == 79  \* 0x004F
RESPB_OP_LPOS == 80  \* 0x0050
RESPB_OP_BLPOP == 81  \* 0x0051
RESPB_OP_BRPOP == 82  \* 0x0052
RESPB_OP_BRPOPLPUSH == 83  \* 0x0053
RESPB_OP_BLMOVE == 84  \* 0x0054
RESPB_OP_BLMPOP == 85  \* 0x0055
RESPB_OP_SADD == 128  \* 0x0080
RESPB_OP_SREM == 129  \* 0x0081
RESPB_OP_SMEMBERS == 130  \* 0x0082
RESPB_OP_SISMEMBER == 131  \* 0x0083
RESPB_OP_SCARD == 132  \* 0x0084
RESPB_OP_SPOP == 133  \* 0x0085
RESPB_OP_SRANDMEMBER == 134  \* 0x0086
RESPB_OP_SINTER == 135  \* 0x0087
RESPB_OP_SINTERSTORE == 136  \* 0x0088
RESPB_OP_SUNION == 137  \* 0x0089
RESPB_OP_SUNIONSTORE == 138  \* 0x008A
RESPB_OP_SDIFF == 139  \* 0x008B
RESPB_OP_SDIFFSTORE == 140  \* 0x008C
RESPB_OP_SMOVE == 141  \* 0x008D
RESPB_OP_SSCAN == 142  \* 0x008E
RESPB_OP_SINTERCARD == 143  \* 0x008F
RESPB_OP_SMISMEMBER == 144  \* 0x0090
RESPB_OP_ZADD == 192  \* 0x00C0
RESPB_OP_ZREM == 193  \* 0x00C1
RESPB_OP_ZCARD == 194  \* 0x00C2
RESPB_OP_ZCOUNT == 195  \* 0x00C3
RESPB_OP_ZINCRBY == 196  \* 0x00C4
RESPB_OP_ZRANGE == 197  \* 0x00C5
RESPB_OP_ZRANGEBYSCORE == 198  \* 0x00C6
RESPB_OP_ZRANGEBYLEX == 199  \* 0x00C7
RESPB_OP_ZREVRANGE == 200  \* 0x00C8
RESPB_OP_ZREVRANGEBYSCORE == 201  \* 0x00C9
RESPB_OP_ZREVRANGEBYLEX == 202  \* 0x00CA
RESPB_OP_ZRANK == 203  \* 0x00CB
RESPB_OP_ZREVRANK == 204  \* 0x00CC
RESPB_OP_ZSCORE == 205  \* 0x00CD
RESPB_OP_ZMSCORE == 206  \* 0x00CE
RESPB_OP_ZREMRANGEBYRANK == 207  \* 0x00CF
RESPB_OP_ZREMRANGEBYSCORE == 208  \* 0x00D0
RESPB_OP_ZREMRANGEBYLEX == 209  \* 0x00D1
RESPB_OP_ZLEXCOUNT == 210  \* 0x00D2
RESPB_OP_ZPOPMIN == 211  \* 0x00D3
RESPB_OP_ZPOPMAX == 212  \* 0x00D4
RESPB_OP_BZPOPMIN == 213  \* 0x00D5
RESPB_OP_BZPOPMAX == 214  \* 0x00D6
RESPB_OP_ZRANDMEMBER == 215  \* 0x00D7
RESPB_OP_ZDIFF == 216  \* 0x00D8
RESPB_OP_ZDIFFSTORE == 217  \* 0x00D9
RESPB_OP_ZINTER == 218  \* 0x00DA
RESPB_OP_ZINTERSTORE == 219  \* 0x00DB
RESPB_OP_ZINTERCARD == 220  \* 0x00DC
RESPB_OP_ZUNION == 221  \* 0x00DD
RESPB_OP_ZUNIONSTORE == 222  \* 0x00DE
RESPB_OP_ZSCAN == 223  \* 0x00DF
RESPB_OP_ZMPOP == 224  \* 0x00E0
RESPB_OP_BZMPOP == 225  \* 0x00E1
RESPB_OP_ZRANGESTORE == 226  \* 0x00E2
RESPB_OP_HSET == 256  \* 0x0100
RESPB_OP_HGET == 257  \* 0x0101
RESPB_OP_HMSET == 258  \* 0x0102
RESPB_OP_HMGET == 259  \* 0x0103
RESPB_OP_HGETALL == 260  \* 0x0104
RESPB_OP_HDEL == 261  \* 0x0105
RESPB_OP_HEXISTS == 262  \* 0x0106
RESPB_OP_HINCRBY == 263  \* 0x0107
RESPB_OP_HINCRBYFLOAT == 264  \* 0x0108
RESPB_OP_HKEYS == 265  \* 0x0109
RESPB_OP_HVALS == 266  \* 0x010A
RESPB_OP_HLEN == 267  \* 0x010B
RESPB_OP_HSETNX == 268  \* 0x010C
RESPB_OP_HSTRLEN == 269  \* 0x010D
RESPB_OP_HSCAN == 270  \* 0x010E
RESPB_OP_HRANDFIELD == 271  \* 0x010F
RESPB_OP_HEXPIRE == 272  \* 0x0110
RESPB_OP_HEXPIREAT == 273  \* 0x0111
RESPB_OP_HEXPIRETIME == 274  \* 0x0112
RESPB_OP_HPEXPIRE == 275  \* 0x0113
RESPB_OP_HPEXPIREAT == 276  \* 0x0114
RESPB_OP_HPEXPIRETIME == 277  \* 0x0115
RESPB_OP_HPTTL == 278  \* 0x0116
RESPB_OP_HTTL == 279  \* 0x0117
RESPB_OP_HPERSIST == 280  \* 0x0118
RESPB_OP_HGETEX == 281  \* 0x0119
RESPB_OP_HSETEX == 282  \* 0x011A
RESPB_OP_SETBIT == 320  \* 0x0140
RESPB_OP_GETBIT == 321  \* 0x0141
RESPB_OP_BITCOUNT == 322  \* 0x0142
RESPB_OP_BITPOS == 323  \* 0x0143
RESPB_OP_BITOP == 324  \* 0x0144
RESPB_OP_BITFIELD == 325  \* 0x0145
RESPB_OP_BITFIELD_RO == 326  \* 0x0146
RESPB_OP_PFADD == 352  \* 0x0160
RESPB_OP_PFCOUNT == 353  \* 0x0161
RESPB_OP_PFMERGE == 354  \* 0x0162
RESPB_OP_PFDEBUG == 355  \* 0x0163
RESPB_OP_PFSELFTEST == 356  \* 0x0164
RESPB_OP_GEOADD == 384  \* 0x0180
RESPB_OP_GEODIST == 385  \* 0x0181
RESPB_OP_GEOHASH == 386  \* 0x0182
RESPB_OP_GEOPOS == 387  \* 0x0183
RESPB_OP_GEORADIUS == 388  \* 0x0184
RESPB_OP_GEORADIUSBYMEMBER == 389  \* 0x0185
RESPB_OP_GEORADIUS_RO == 390  \* 0x0186
RESPB_OP_GEORADIUSBYMEMBER_RO == 391  \* 0x0187
RESPB_OP_GEOSEARCH == 392  \* 0x0188
RESPB_OP_GEOSEARCHSTORE == 393  \* 0x0189
RESPB_OP_XADD == 448  \* 0x01C0
RESPB_OP_XLEN == 449  \* 0x01C1
RESPB_OP_XRANGE == 450  \* 0x01C2
RESPB_OP_XREVRANGE == 451  \* 0x01C3
RESPB_OP_XREAD == 452  \* 0x01C4
RESPB_OP_XREADGROUP == 453  \* 0x01C5
RESPB_OP_XDEL == 454  \* 0x01C6
RESPB_OP_XTRIM == 455  \* 0x01C7
RESPB_OP_XACK == 456  \* 0x01C8
RESPB_OP_XPENDING == 457  \* 0x01C9
RESPB_OP_XCLAIM == 458  \* 0x01CA
RESPB_OP_XAUTOCLAIM == 459  \* 0x01CB
RESPB_OP_XINFO == 460  \* 0x01CC
RESPB_OP_XGROUP == 461  \* 0x01CD
RESPB_OP_XSETID == 462  \* 0x01CE
RESPB_OP_DEL == 704  \* 0x02C0
RESPB_OP_UNLINK == 705  \* 0x02C1
RESPB_OP_EXISTS == 706  \* 0x02C2
RESPB_OP_EXPIRE == 707  \* 0x02C3
RESPB_OP_EXPIREAT == 708  \* 0x02C4
RESPB_OP_EXPIRETIME == 709  \* 0x02C5
RESPB_OP_PEXPIRE == 710  \* 0x02C6
RESPB_OP_PEXPIREAT == 711  \* 0x02C7
RESPB_OP_PEXPIRETIME == 712  \* 0x02C8
RESPB_OP_TTL == 713  \* 0x02C9
RESPB_OP_PTTL == 714  \* 0x02CA
RESPB_OP_PERSIST == 715  \* 0x02CB
RESPB_OP_KEYS == 716  \* 0x02CC
RESPB_OP_SCAN == 717  \* 0x02CD
RESPB_OP_RANDOMKEY == 718  \* 0x02CE
RESPB_OP_RENAME == 719  \* 0x02CF
RESPB_OP_RENAMENX == 720  \* 0x02D0
RESPB_OP_TYPE == 721  \* 0x02D1
RESPB_OP_DUMP == 722  \* 0x02D2
RESPB_OP_RESTORE == 723  \* 0x02D3
RESPB_OP_MIGRATE == 724  \* 0x02D4
RESPB_OP_MOVE == 725  \* 0x02D5
RESPB_OP_COPY == 726  \* 0x02D6
RESPB_OP_SORT == 727  \* 0x02D7
RESPB_OP_SORT_RO == 728  \* 0x02D8
RESPB_OP_TOUCH == 729  \* 0x02D9
RESPB_OP_OBJECT == 730  \* 0x02DA
RESPB_OP_WAIT == 731  \* 0x02DB
RESPB_OP_WAITAOF == 732  \* 0x02DC
RESPB_OP_PING == 768  \* 0x0300
RESPB_OP_ECHO == 769  \* 0x0301
RESPB_OP_AUTH == 770  \* 0x0302
RESPB_OP_SELECT == 771  \* 0x0303
RESPB_OP_QUIT == 772  \* 0x0304
RESPB_OP_HELLO == 773  \* 0x0305
RESPB_OP_RESET == 774  \* 0x0306
RESPB_OP_CLIENT == 775  \* 0x0307
RESPB_OP_MULTI == 576  \* 0x0240
RESPB_OP_EXEC == 577  \* 0x0241
RESPB_OP_DISCARD == 578  \* 0x0242
RESPB_OP_WATCH == 579  \* 0x0243
RESPB_OP_UNWATCH == 580  \* 0x0244
RESPB_OP_EVAL == 608  \* 0x0260
RESPB_OP_EVALSHA == 609  \* 0x0261
RESPB_OP_EVAL_RO == 610  \* 0x0262
RESPB_OP_EVALSHA_RO == 611  \* 0x0263
RESPB_OP_SCRIPT == 612  \* 0x0264
RESPB_OP_FCALL == 613  \* 0x0265
RESPB_OP_FCALL_RO == 614  \* 0x0266
RESPB_OP_FUNCTION == 615  \* 0x0267
RESPB_OP_CLUSTER == 832  \* 0x0340
RESPB_OP_READONLY == 833  \* 0x0341
RESPB_OP_READWRITE == 834  \* 0x0342
RESPB_OP_ASKING == 835  \* 0x0343
RESPB_OP_DBSIZE == 960  \* 0x03C0
RESPB_OP_FLUSHDB == 961  \* 0x03C1
RESPB_OP_FLUSHALL == 962  \* 0x03C2
RESPB_OP_SAVE == 963  \* 0x03C3
RESPB_OP_BGSAVE == 964  \* 0x03C4
RESPB_OP_BGREWRITEAOF == 965  \* 0x03C5
RESPB_OP_LASTSAVE == 966  \* 0x03C6
RESPB_OP_SHUTDOWN == 967  \* 0x03C7
RESPB_OP_INFO == 968  \* 0x03C8
RESPB_OP_CONFIG == 969  \* 0x03C9
RESPB_OP_COMMAND == 970  \* 0x03CA
RESPB_OP_TIME == 971  \* 0x03CB
RESPB_OP_ROLE == 972  \* 0x03CC
RESPB_OP_REPLICAOF == 973  \* 0x03CD
RESPB_OP_SLAVEOF == 974  \* 0x03CE
RESPB_OP_MONITOR == 975  \* 0x03CF
RESPB_OP_DEBUG == 976  \* 0x03D0
RESPB_OP_SYNC == 977  \* 0x03D1
RESPB_OP_PSYNC == 978  \* 0x03D2
RESPB_OP_REPLCONF == 979  \* 0x03D3
RESPB_OP_SLOWLOG == 980  \* 0x03D4
RESPB_OP_LATENCY == 981  \* 0x03D5
RESPB_OP_MEMORY == 982  \* 0x03D6
RESPB_OP_MODULE_CMD == 983  \* 0x03D7
RESPB_OP_ACL == 984  \* 0x03D8
RESPB_OP_FAILOVER == 985  \* 0x03D9
RESPB_OP_SWAPDB == 986  \* 0x03DA
RESPB_OP_LOLWUT == 987  \* 0x03DB
RESPB_OP_RESTORE_ASKING == 988  \* 0x03DC
RESPB_OP_COMMANDLOG == 989  \* 0x03DD
RESPB_OP_PUBLISH == 512  \* 0x0200
RESPB_OP_SUBSCRIBE == 513  \* 0x0201
RESPB_OP_UNSUBSCRIBE == 514  \* 0x0202
RESPB_OP_PSUBSCRIBE == 515  \* 0x0203
RESPB_OP_PUNSUBSCRIBE == 516  \* 0x0204
RESPB_OP_PUBSUB == 517  \* 0x0205
RESPB_OP_SPUBLISH == 518  \* 0x0206
RESPB_OP_SSUBSCRIBE == 519  \* 0x0207
RESPB_OP_SUNSUBSCRIBE == 520  \* 0x0208
RESPB_OP_MODULE == 61440  \* 0xF000
RESPB_OP_RESP_PASSTHROUGH == 65535  \* 0xFFFF
RESPB_MODULE_JSON == 0  \* 0x0000
RESPB_MODULE_BF == 1  \* 0x0001
RESPB_MODULE_FT == 2  \* 0x0002
RESPB_RESP_OK == 32768  \* 0x8000
RESPB_RESP_ERROR == 32769  \* 0x8001
RESPB_RESP_NULL == 32770  \* 0x8002
RESPB_RESP_INT == 32771  \* 0x8003
RESPB_RESP_BULK == 32772  \* 0x8004
RESPB_RESP_ARRAY == 32773  \* 0x8005
RESPB_MAX_ARGS == 64
(* The request opcodes the header defines : every RESPB_OP_ constant, 0xF000 and 0xFFFF included. *)
RequestOpcodes ==
    {RESPB_OP_GET, RESPB_OP_SET, RESPB_OP_APPEND, RESPB_OP_DECR, RESPB_OP_DECRBY,
     RESPB_OP_GETDEL, RESPB_OP_GETEX, RESPB_OP_GETRANGE, RESPB_OP_GETSET, RESPB_OP_INCR,
     RESPB_OP_INCRBY, RESPB_OP_INCRBYFLOAT, RESPB_OP_MGET, RESPB_OP_MSET, RESPB_OP_MSETNX,
     RESPB_OP_PSETEX, RESPB_OP_SETEX, RESPB_OP_SETNX, RESPB_OP_SETRANGE, RESPB_OP_STRLEN,
     RESPB_OP_SUBSTR, RESPB_OP_LCS, RESPB_OP_DELIFEQ, RESPB_OP_LPUSH, RESPB_OP_RPUSH,
     RESPB_OP_LPOP, RESPB_OP_RPOP, RESPB_OP_LLEN, RESPB_OP_LRANGE, RESPB_OP_LINDEX,
     RESPB_OP_LSET, RESPB_OP_LREM, RESPB_OP_LTRIM, RESPB_OP_LINSERT, RESPB_OP_LPUSHX,
     RESPB_OP_RPUSHX, RESPB_OP_RPOPLPUSH, RESPB_OP_LMOVE, RESPB_OP_LMPOP, RESPB_OP_LPOS,
     RESPB_OP_BLPOP, RESPB_OP_BRPOP, RESPB_OP_BRPOPLPUSH, RESPB_OP_BLMOVE, RESPB_OP_BLMPOP,
     RESPB_OP_SADD, RESPB_OP_SREM, RESPB_OP_SMEMBERS, RESPB_OP_SISMEMBER, RESPB_OP_SCARD,
     RESPB_OP_SPOP, RESPB_OP_SRANDMEMBER, RESPB_OP_SINTER, RESPB_OP_SINTERSTORE,
     RESPB_OP_SUNION, RESPB_OP_SUNIONSTORE, RESPB_OP_SDIFF, RESPB_OP_SDIFFSTORE,
     RESPB_OP_SMOVE, RESPB_OP_SSCAN, RESPB_OP_SINTERCARD, RESPB_OP_SMISMEMBER,
     RESPB_OP_ZADD, RESPB_OP_ZREM, RESPB_OP_ZCARD, RESPB_OP_ZCOUNT, RESPB_OP_ZINCRBY,
     RESPB_OP_ZRANGE, RESPB_OP_ZRANGEBYSCORE, RESPB_OP_ZRANGEBYLEX, RESPB_OP_ZREVRANGE,
     RESPB_OP_ZREVRANGEBYSCORE, RESPB_OP_ZREVRANGEBYLEX, RESPB_OP_ZRANK, RESPB_OP_ZREVRANK,
     RESPB_OP_ZSCORE, RESPB_OP_ZMSCORE, RESPB_OP_ZREMRANGEBYRANK, RESPB_OP_ZREMRANGEBYSCORE,
     RESPB_OP_ZREMRANGEBYLEX, RESPB_OP_ZLEXCOUNT, RESPB_OP_ZPOPMIN, RESPB_OP_ZPOPMAX,
     RESPB_OP_BZPOPMIN, RESPB_OP_BZPOPMAX, RESPB_OP_ZRANDMEMBER, RESPB_OP_ZDIFF,
     RESPB_OP_ZDIFFSTORE, RESPB_OP_ZINTER, RESPB_OP_ZINTERSTORE, RESPB_OP_ZINTERCARD,
     RESPB_OP_ZUNION, RESPB_OP_ZUNIONSTORE, RESPB_OP_ZSCAN, RESPB_OP_ZMPOP, RESPB_OP_BZMPOP,
     RESPB_OP_ZRANGESTORE, RESPB_OP_HSET, RESPB_OP_HGET, RESPB_OP_HMSET, RESPB_OP_HMGET,
     RESPB_OP_HGETALL, RESPB_OP_HDEL, RESPB_OP_HEXISTS, RESPB_OP_HINCRBY,
     RESPB_OP_HINCRBYFLOAT, RESPB_OP_HKEYS, RESPB_OP_HVALS, RESPB_OP_HLEN, RESPB_OP_HSETNX,
     RESPB_OP_HSTRLEN, RESPB_OP_HSCAN, RESPB_OP_HRANDFIELD, RESPB_OP_HEXPIRE,
     RESPB_OP_HEXPIREAT, RESPB_OP_HEXPIRETIME, RESPB_OP_HPEXPIRE, RESPB_OP_HPEXPIREAT,
     RESPB_OP_HPEXPIRETIME, RESPB_OP_HPTTL, RESPB_OP_HTTL, RESPB_OP_HPERSIST,
     RESPB_OP_HGETEX, RESPB_OP_HSETEX, RESPB_OP_SETBIT, RESPB_OP_GETBIT, RESPB_OP_BITCOUNT,
     RESPB_OP_BITPOS, RESPB_OP_BITOP, RESPB_OP_BITFIELD, RESPB_OP_BITFIELD_RO,
     RESPB_OP_PFADD, RESPB_OP_PFCOUNT, RESPB_OP_PFMERGE, RESPB_OP_PFDEBUG,
     RESPB_OP_PFSELFTEST, RESPB_OP_GEOADD, RESPB_OP_GEODIST, RESPB_OP_GEOHASH,
     RESPB_OP_GEOPOS, RESPB_OP_GEORADIUS, RESPB_OP_GEORADIUSBYMEMBER, RESPB_OP_GEORADIUS_RO,
     RESPB_OP_GEORADIUSBYMEMBER_RO, RESPB_OP_GEOSEARCH, RESPB_OP_GEOSEARCHSTORE,
     RESPB_OP_XADD, RESPB_OP_XLEN, RESPB_OP_XRANGE, RESPB_OP_XREVRANGE, RESPB_OP_XREAD,
     RESPB_OP_XREADGROUP, RESPB_OP_XDEL, RESPB_OP_XTRIM, RESPB_OP_XACK, RESPB_OP_XPENDING,
     RESPB_OP_XCLAIM, RESPB_OP_XAUTOCLAIM, RESPB_OP_XINFO, RESPB_OP_XGROUP, RESPB_OP_XSETID,
     RESPB_OP_DEL, RESPB_OP_UNLINK, RESPB_OP_EXISTS, RESPB_OP_EXPIRE, RESPB_OP_EXPIREAT,
     RESPB_OP_EXPIRETIME, RESPB_OP_PEXPIRE, RESPB_OP_PEXPIREAT, RESPB_OP_PEXPIRETIME,
     RESPB_OP_TTL, RESPB_OP_PTTL, RESPB_OP_PERSIST, RESPB_OP_KEYS, RESPB_OP_SCAN,
     RESPB_OP_RANDOMKEY, RESPB_OP_RENAME, RESPB_OP_RENAMENX, RESPB_OP_TYPE, RESPB_OP_DUMP,
     RESPB_OP_RESTORE, RESPB_OP_MIGRATE, RESPB_OP_MOVE, RESPB_OP_COPY, RESPB_OP_SORT,
     RESPB_OP_SORT_RO, RESPB_OP_TOUCH, RESPB_OP_OBJECT, RESPB_OP_WAIT, RESPB_OP_WAITAOF,
     RESPB_OP_PING, RESPB_OP_ECHO, RESPB_OP_AUTH, RESPB_OP_SELECT, RESPB_OP_QUIT,
     RESPB_OP_HELLO, RESPB_OP_RESET, RESPB_OP_CLIENT, RESPB_OP_MULTI, RESPB_OP_EXEC,
     RESPB_OP_DISCARD, RESPB_OP_WATCH, RESPB_OP_UNWATCH, RESPB_OP_EVAL, RESPB_OP_EVALSHA,
     RESPB_OP_EVAL_RO, RESPB_OP_EVALSHA_RO, RESPB_OP_SCRIPT, RESPB_OP_FCALL,
     RESPB_OP_FCALL_RO, RESPB_OP_FUNCTION, RESPB_OP_CLUSTER, RESPB_OP_READONLY,
     RESPB_OP_READWRITE, RESPB_OP_ASKING, RESPB_OP_DBSIZE, RESPB_OP_FLUSHDB,
     RESPB_OP_FLUSHALL, RESPB_OP_SAVE, RESPB_OP_BGSAVE, RESPB_OP_BGREWRITEAOF,
     RESPB_OP_LASTSAVE, RESPB_OP_SHUTDOWN, RESPB_OP_INFO, RESPB_OP_CONFIG, RESPB_OP_COMMAND,
     RESPB_OP_TIME, RESPB_OP_ROLE, RESPB_OP_REPLICAOF, RESPB_OP_SLAVEOF, RESPB_OP_MONITOR,
     RESPB_OP_DEBUG, RESPB_OP_SYNC, RESPB_OP_PSYNC, RESPB_OP_REPLCONF, RESPB_OP_SLOWLOG,
     RESPB_OP_LATENCY, RESPB_OP_MEMORY, RESPB_OP_MODULE_CMD, RESPB_OP_ACL,
     RESPB_OP_FAILOVER, RESPB_OP_SWAPDB, RESPB_OP_LOLWUT, RESPB_OP_RESTORE_ASKING,
     RESPB_OP_COMMANDLOG, RESPB_OP_PUBLISH, RESPB_OP_SUBSCRIBE, RESPB_OP_UNSUBSCRIBE,
     RESPB_OP_PSUBSCRIBE, RESPB_OP_PUNSUBSCRIBE, RESPB_OP_PUBSUB, RESPB_OP_SPUBLISH,
     RESPB_OP_SSUBSCRIBE, RESPB_OP_SUNSUBSCRIBE, RESPB_OP_MODULE, RESPB_OP_RESP_PASSTHROUGH}

(* The response opcodes the header defines: every RESPB_RESP_ constant. *)
(* Response opcodes of which one takes the value of the module frames. *)
ResponseOpcodes_Overlapping ==
    {RESPB_RESP_OK, RESPB_RESP_ERROR, RESPB_RESP_NULL, RESPB_RESP_INT, RESPB_RESP_BULK,
     RESPB_OP_MODULE}

ResponseOpcodes ==
    {RESPB_RESP_OK, RESPB_RESP_ERROR, RESPB_RESP_NULL, RESPB_RESP_INT, RESPB_RESP_BULK,
     RESPB_RESP_ARRAY}

(* The number of RESPB_OP_ names respb.h defines. *)
RequestOpcodeNames == 256

(***************************************************************************)
(* Byte I/O primitives                                                     *)
(***************************************************************************)

Max(a, b) == IF a >= b THEN a ELSE b

(* buf[off] in C.  A read at or past the end of the array has no defined   *)
(* value; the parser's invariant (rd_max <= buffer_len) is that it never   *)
(* happens, so the value given for it here is never used by the code.      *)
Byte(buf, off) == IF off >= 0 /\ off < Len(buf) THEN buf[off + 1] ELSE 0

read_u16_be(buf, off) == Byte(buf, off) * 256 + Byte(buf, off + 1)

read_u32_be(buf, off) ==
    Byte(buf, off) * 16777216 + Byte(buf, off + 1) * 65536
        + Byte(buf, off + 2) * 256 + Byte(buf, off + 3)

(***************************************************************************)
(* The steps a case of the parser's switch is made of.  A case is written  *)
(* as the sequence of its statements:                                      *)
(*   S2(c), S4(c)      READ_STRING_2B / READ_STRING_4B into args[c]        *)
(*   S2i(m,c), S4i(..) the same into args[i * m + c], i the loop variable  *)
(*   S2NK              READ_STRING_2B into args[numkeys + 1]               *)
(*   CHK(n)            CHECK_AVAIL(parser, n)                              *)
(*   ADV(n)            parser->pos += n                                    *)
(*   RD16(r)           uint16_t r = read_u16_be(parser->buffer + pos);     *)
(*                     r is "count" for the case's first counter (count,   *)
(*                     npairs, numkeys, numfields, numpaths), "numargs"    *)
(*                     for the second counter of the EVAL family           *)
(*   RD8               uint8_t flags = parser->buffer[parser->pos]         *)
(*   FOR(m,g,body)     for (i = 0; i < count && i*m + g < MAX_ARGS; i++)   *)
(*   IFC(c,body)       if (c) { body }                                     *)
(*   ARGC..            cmd->argc = ...                                     *)
(***************************************************************************)
S2(c) == [k |-> "S2", m |-> 0, c |-> c]
S4(c) == [k |-> "S4", m |-> 0, c |-> c]
S2i(m, c) == [k |-> "S2", m |-> m, c |-> c]
S4i(m, c) == [k |-> "S4", m |-> m, c |-> c]
S2NK == [k |-> "S2NK"]
CHK(n) == [k |-> "CHK", n |-> n]
ADV(n) == [k |-> "ADV", n |-> n]
RD16(r) == [k |-> "RD16", r |-> r]
RD8 == [k |-> "RD8"]
FOR(m, g, body) == [k |-> "FOR", m |-> m, g |-> g, body |-> body]
IFC(c, body) == [k |-> "IF", c |-> c, body |-> body]
(* cmd->argc = n *)
ARGC(n) == [k |-> "ARGC", f |-> "const", a |-> n]
(* cmd->argc = base + (count * tm < thr ? count * mul : cap) *)
ARGC_CAP(base, tm, thr, mul, cap) ==
    [k |-> "ARGC", f |-> "cap", base |-> base, tm |-> tm, thr |-> thr,
     mul |-> mul, cap |-> cap]
(* cmd->argc = count > 0 ? a : b *)
ARGC_IF(a, b) == [k |-> "ARGC", f |-> "if", a |-> a, b |-> b]
(* cmd->argc = (numkeys + (numargs > 0 ? 1 : 0) + 1) < MAX_ARGS ? ... : MAX_ARGS *)
ARGC_EVAL == [k |-> "ARGC", f |-> "eval"]
(* The opcode is not a label of this part of the switch. *)
NoCase == <<>>

(* respb_parse_command, "String Operations" cases of the switch (respb_parser.c:84-223). *)
ShapeString(op) ==
    CASE op \in {RESPB_OP_GET, RESPB_OP_DECR, RESPB_OP_GETDEL, RESPB_OP_INCR, RESPB_OP_STRLEN} ->   \* :84
           <<S2(0), ARGC(1)>>
      [] op = RESPB_OP_SET ->   \* :93
           <<S2(0), S4(1), CHK(9), ADV(9), ARGC(2)>>
      [] op \in {RESPB_OP_APPEND, RESPB_OP_SETNX} ->   \* :101
           <<S2(0), S4(1), ARGC(2)>>
      [] op \in {RESPB_OP_INCRBY, RESPB_OP_DECRBY} ->   \* :108
           <<S2(0), CHK(8), ADV(8), ARGC(1)>>
      [] op = RESPB_OP_GETEX ->   \* :116
           <<S2(0), CHK(1), RD8, ADV(1), IFC("FLAG1", <<CHK(8), ADV(8)>>), ARGC(1)>>
      [] op \in {RESPB_OP_GETRANGE, RESPB_OP_SUBSTR} ->   \* :128
           <<S2(0), CHK(16), ADV(16), ARGC(1)>>
      [] op = RESPB_OP_GETSET ->   \* :136
           <<S2(0), S4(1), ARGC(2)>>
      [] op = RESPB_OP_INCRBYFLOAT ->   \* :142
           <<S2(0), CHK(8), ADV(8), ARGC(1)>>
      [] op = RESPB_OP_MSETNX ->   \* :149
           <<CHK(2), RD16("count"), ADV(2), FOR(2, 1, <<S2i(2, 0), S4i(2, 1)>>), ARGC_CAP(0, 1, RESPB_MAX_ARGS \div 2, 2, RESPB_MAX_ARGS)>>
      [] op \in {RESPB_OP_PSETEX, RESPB_OP_SETEX} ->   \* :161
           <<S2(0), CHK(8), ADV(8), S4(1), ARGC(2)>>
      [] op = RESPB_OP_SETRANGE ->   \* :170
           <<S2(0), CHK(8), ADV(8), S4(1), ARGC(2)>>
      [] op = RESPB_OP_LCS ->   \* :178
           <<S2(0), S2(1), CHK(1), ADV(1), ARGC(2)>>
      [] op = RESPB_OP_DELIFEQ ->   \* :186
           <<S2(0), S4(1), ARGC(2)>>
      [] op = RESPB_OP_EXPIRE ->   \* :192
           <<S2(0), CHK(9), ADV(9), ARGC(1)>>
      [] op \in {RESPB_OP_MGET, RESPB_OP_DEL, RESPB_OP_EXISTS, RESPB_OP_UNLINK} ->   \* :199
           <<CHK(2), RD16("count"), ADV(2), FOR(1, 0, <<S2i(1, 0)>>), ARGC_CAP(0, 1, RESPB_MAX_ARGS, 1, RESPB_MAX_ARGS)>>
      [] op = RESPB_OP_MSET ->   \* :213
           <<CHK(2), RD16("count"), ADV(2), FOR(2, 1, <<S2i(2, 0), S4i(2, 1)>>), ARGC_CAP(0, 1, RESPB_MAX_ARGS \div 2, 2, RESPB_MAX_ARGS)>>
      [] OTHER -> NoCase

(* respb_parse_command, "List Operations" cases of the switch (respb_parser.c:227-388). *)
ShapeList(op) ==
    CASE op \in {RESPB_OP_LPUSH, RESPB_OP_RPUSH} ->   \* :227
           <<S2(0), CHK(2), RD16("count"), ADV(2), FOR(1, 1, <<S2i(1, 1)>>), ARGC_CAP(1, 1, RESPB_MAX_ARGS - 1, 1, RESPB_MAX_ARGS - 1)>>
      [] op \in {RESPB_OP_LPOP, RESPB_OP_RPOP} ->   \* :240
           <<S2(0), ARGC(1)>>
      [] op = RESPB_OP_LLEN ->   \* :247
           <<S2(0), ARGC(1)>>
      [] op = RESPB_OP_LRANGE ->   \* :252
           <<S2(0), CHK(16), ADV(16), ARGC(1)>>
      [] op = RESPB_OP_LINDEX ->   \* :260
           <<S2(0), CHK(8), ADV(8), ARGC(1)>>
      [] op = RESPB_OP_LSET ->   \* :267
           <<S2(0), CHK(8), ADV(8), S2(1), ARGC(2)>>
      [] op = RESPB_OP_LREM ->   \* :275
           <<S2(0), CHK(8), ADV(8), S2(1), ARGC(2)>>
      [] op = RESPB_OP_LTRIM ->   \* :283
           <<S2(0), CHK(16), ADV(16), ARGC(1)>>
      [] op = RESPB_OP_LINSERT ->   \* :290
           <<S2(0), CHK(1), ADV(1), S2(1), S2(2), ARGC(3)>>
      [] op \in {RESPB_OP_LPUSHX, RESPB_OP_RPUSHX} ->   \* :299
           <<S2(0), CHK(2), RD16("count"), ADV(2), FOR(1, 1, <<S2i(1, 1)>>), ARGC_CAP(1, 1, RESPB_MAX_ARGS - 1, 1, RESPB_MAX_ARGS - 1)>>
      [] op = RESPB_OP_RPOPLPUSH ->   \* :312
           <<S2(0), S2(1), ARGC(2)>>
      [] op = RESPB_OP_LMOVE ->   \* :318
           <<S2(0), S2(1), CHK(2), ADV(2), ARGC(2)>>
      [] op = RESPB_OP_BRPOPLPUSH ->   \* :326
           <<S2(0), S2(1), CHK(8), ADV(8), ARGC(2)>>
      [] op = RESPB_OP_BLMOVE ->   \* :334
           <<S2(0), S2(1), CHK(10), ADV(10), ARGC(2)>>
      [] op = RESPB_OP_BLMPOP ->   \* :342
           <<CHK(8), ADV(8), CHK(2), RD16("count"), ADV(2), FOR(1, 0, <<S2i(1, 0)>>), CHK(1), ADV(1), ARGC_CAP(0, 1, RESPB_MAX_ARGS, 1, RESPB_MAX_ARGS)>>
      [] op = RESPB_OP_LMPOP ->   \* :356
           <<CHK(2), RD16("count"), ADV(2), FOR(1, 0, <<S2i(1, 0)>>), CHK(1), ADV(1), ARGC_CAP(0, 1, RESPB_MAX_ARGS, 1, RESPB_MAX_ARGS)>>
      [] op = RESPB_OP_LPOS ->   \* :369
           <<S2(0), S2(1), ARGC(2)>>
      [] op \in {RESPB_OP_BLPOP, RESPB_OP_BRPOP} ->   \* :376
           <<CHK(2), RD16("count"), ADV(2), FOR(1, 0, <<S2i(1, 0)>>), CHK(8), ADV(8), ARGC_CAP(0, 1, RESPB_MAX_ARGS, 1, RESPB_MAX_ARGS)>>
      [] OTHER -> NoCase

(* respb_parse_command, "Set Operations" cases of the switch (respb_parser.c:392-488). *)
ShapeSet(op) ==
    CASE op = RESPB_OP_SADD ->   \* :392
           <<S2(0), CHK(2), RD16("count"), ADV(2), FOR(1, 1, <<S2i(1, 1)>>), ARGC_CAP(1, 1, RESPB_MAX_ARGS - 1, 1, RESPB_MAX_ARGS - 1)>>
      [] op = RESPB_OP_SREM ->   \* :404
           <<S2(0), CHK(2), RD16("count"), ADV(2), FOR(1, 1, <<S2i(1, 1)>>), ARGC_CAP(1, 1, RESPB_MAX_ARGS - 1, 1, RESPB_MAX_ARGS - 1)>>
      [] op \in {RESPB_OP_SMEMBERS, RESPB_OP_SCARD, RESPB_OP_SPOP} ->   \* :416
           <<S2(0), ARGC(1)>>
      [] op = RESPB_OP_SISMEMBER ->   \* :423
           <<S2(0), S2(1), ARGC(2)>>
      [] op = RESPB_OP_SRANDMEMBER ->   \* :429
           <<S2(0), ARGC(1)>>
      [] op \in {RESPB_OP_SINTER, RESPB_OP_SUNION, RESPB_OP_SDIFF, RESPB_OP_SINTERCARD} ->   \* :435
           <<CHK(2), RD16("count"), ADV(2), FOR(1, 0, <<S2i(1, 0)>>), ARGC_CAP(0, 1, RESPB_MAX_ARGS, 1, RESPB_MAX_ARGS)>>
      [] op \in {RESPB_OP_SINTERSTORE, RESPB_OP_SUNIONSTORE, RESPB_OP_SDIFFSTORE} ->   \* :449
           <<S2(0), CHK(2), RD16("count"), ADV(2), FOR(1, 1, <<S2i(1, 1)>>), ARGC_CAP(1, 1, RESPB_MAX_ARGS - 1, 1, RESPB_MAX_ARGS - 1)>>
      [] op = RESPB_OP_SMOVE ->   \* :463
           <<S2(0), S2(1), S2(2), ARGC(3)>>
      [] op = RESPB_OP_SSCAN ->   \* :470
           <<S2(0), CHK(8), ADV(8), ARGC(1)>>
      [] op = RESPB_OP_SMISMEMBER ->   \* :478
           <<S2(0), CHK(2), RD16("count"), ADV(2), FOR(1, 1, <<S2i(1, 1)>>), ARGC_CAP(1, 1, RESPB_MAX_ARGS - 1, 1, RESPB_MAX_ARGS - 1)>>
      [] OTHER -> NoCase

(* respb_parse_command, "Hash Operations" cases of the switch (respb_parser.c:492-656). *)
ShapeHash(op) ==
    CASE op = RESPB_OP_HSET ->   \* :492
           <<S2(0), CHK(2), RD16("count"), ADV(2), FOR(2, 2, <<S2i(2, 1), S4i(2, 2)>>), ARGC_CAP(1, 1, (RESPB_MAX_ARGS - 1) \div 2, 2, RESPB_MAX_ARGS - 1)>>
      [] op = RESPB_OP_HGET ->   \* :505
           <<S2(0), S2(1), ARGC(2)>>
      [] op = RESPB_OP_HMSET ->   \* :511
           <<S2(0), CHK(2), RD16("count"), ADV(2), FOR(2, 2, <<S2i(2, 1), S4i(2, 2)>>), ARGC_CAP(1, 1, (RESPB_MAX_ARGS - 1) \div 2, 2, RESPB_MAX_ARGS - 1)>>
      [] op = RESPB_OP_HMGET ->   \* :524
           <<S2(0), CHK(2), RD16("count"), ADV(2), FOR(1, 1, <<S2i(1, 1)>>), ARGC_CAP(1, 1, RESPB_MAX_ARGS - 1, 1, RESPB_MAX_ARGS - 1)>>
      [] op = RESPB_OP_HDEL ->   \* :536
           <<S2(0), CHK(2), RD16("count"), ADV(2), FOR(1, 1, <<S2i(1, 1)>>), ARGC_CAP(1, 1, RESPB_MAX_ARGS - 1, 1, RESPB_MAX_ARGS - 1)>>
      [] op \in {RESPB_OP_HGETALL, RESPB_OP_HKEYS, RESPB_OP_HVALS, RESPB_OP_HLEN} ->   \* :548
           <<S2(0), ARGC(1)>>
      [] op = RESPB_OP_HRANDFIELD ->   \* :556
           <<S2(0), ARGC(1)>>
      [] op \in {RESPB_OP_HEXPIRE, RESPB_OP_HEXPIREAT, RESPB_OP_HPEXPIRE, RESPB_OP_HPEXPIREAT} ->   \* :562
           <<S2(0), CHK(11), ADV(11), IFC("POS_LT_LEN", <<S2(1)>>), ARGC(2)>>
      [] op \in {RESPB_OP_HEXPIRETIME, RESPB_OP_HPEXPIRETIME, RESPB_OP_HPTTL, RESPB_OP_HTTL,
               RESPB_OP_HPERSIST} ->   \* :575
           <<S2(0), CHK(2), RD16("count"), ADV(2), IFC("CNT_IN", <<S2(1)>>), ARGC_IF(2, 1)>>
      [] op = RESPB_OP_HGETEX ->   \* :591
           <<S2(0), CHK(1), ADV(1), CHK(2), RD16("count"), ADV(2), IFC("CNT_IN", <<S2(1)>>), ARGC_IF(2, 1)>>
      [] op = RESPB_OP_HSETEX ->   \* :605
           <<S2(0), CHK(1), ADV(1), CHK(2), RD16("count"), ADV(2), IFC("CNT_IN", <<S2(1), S4(2)>>), ARGC_IF(3, 1)>>
      [] op \in {RESPB_OP_HEXISTS, RESPB_OP_HSTRLEN} ->   \* :620
           <<S2(0), S2(1), ARGC(2)>>
      [] op = RESPB_OP_HINCRBY ->   \* :627
           <<S2(0), S2(1), CHK(8), ADV(8), ARGC(2)>>
      [] op = RESPB_OP_HINCRBYFLOAT ->   \* :635
           <<S2(0), S2(1), CHK(8), ADV(8), ARGC(2)>>
      [] op = RESPB_OP_HSETNX ->   \* :643
           <<S2(0), S2(1), S4(2), ARGC(3)>>
      [] op = RESPB_OP_HSCAN ->   \* :650
           <<S2(0), CHK(8), ADV(8), ARGC(1)>>
      [] OTHER -> NoCase

(* respb_parse_command, "Sorted Set Operations" cases of the switch (respb_parser.c:660-899). *)
ShapeSortedSet(op) ==
    CASE op = RESPB_OP_ZADD ->   \* :660
           <<S2(0), CHK(3), ADV(3), ARGC(1)>>
      [] op = RESPB_OP_ZREM ->   \* :668
           <<S2(0), CHK(2), RD16("count"), ADV(2), FOR(1, 1, <<S2i(1, 1)>>), ARGC_CAP(1, 1, RESPB_MAX_ARGS - 1, 1, RESPB_MAX_ARGS - 1)>>
      [] op = RESPB_OP_ZSCORE ->   \* :680
           <<S2(0), S2(1), ARGC(2)>>
      [] op \in {RESPB_OP_ZRANGE, RESPB_OP_ZREVRANGE} ->   \* :686
           <<S2(0), CHK(17), ADV(17), ARGC(1)>>
      [] op \in {RESPB_OP_ZRANGEBYSCORE, RESPB_OP_ZREVRANGEBYSCORE} ->   \* :694
           <<S2(0), CHK(17), ADV(17), ARGC(1)>>
      [] op \in {RESPB_OP_ZRANGEBYLEX, RESPB_OP_ZREVRANGEBYLEX} ->   \* :702
           <<S2(0), S2(1), S2(2), ARGC(3)>>
      [] op \in {RESPB_OP_ZREMRANGEBYLEX, RESPB_OP_ZLEXCOUNT} ->   \* :711
           <<S2(0), S2(1), S2(2), ARGC(3)>>
      [] op \in {RESPB_OP_BZPOPMIN, RESPB_OP_BZPOPMAX} ->   \* :719
           <<CHK(2), RD16("count"), ADV(2), FOR(1, 0, <<S2i(1, 0)>>), CHK(8), ADV(8), ARGC_CAP(0, 1, RESPB_MAX_ARGS, 1, RESPB_MAX_ARGS)>>
      [] op = RESPB_OP_ZRANDMEMBER ->   \* :733
           <<S2(0), ARGC(1)>>
      [] op = RESPB_OP_ZDIFF ->   \* :739
           <<CHK(2), RD16("count"), ADV(2), FOR(1, 0, <<S2i(1, 0)>>), CHK(1), ADV(1), ARGC_CAP(0, 1, RESPB_MAX_ARGS, 1, RESPB_MAX_ARGS)>>
      [] op = RESPB_OP_ZDIFFSTORE ->   \* :752
           <<S2(0), CHK(2), RD16("count"), ADV(2), FOR(1, 1, <<S2i(1, 1)>>), ARGC_CAP(1, 1, RESPB_MAX_ARGS - 1, 1, RESPB_MAX_ARGS - 1)>>
      [] op \in {RESPB_OP_ZINTER, RESPB_OP_ZUNION} ->   \* :764
           <<CHK(2), RD16("count"), ADV(2), FOR(1, 0, <<S2i(1, 0)>>), CHK(1), ADV(1), ARGC_CAP(0, 1, RESPB_MAX_ARGS, 1, RESPB_MAX_ARGS)>>
      [] op \in {RESPB_OP_ZINTERSTORE, RESPB_OP_ZUNIONSTORE} ->   \* :778
           <<S2(0), CHK(2), RD16("count"), ADV(2), FOR(1, 1, <<S2i(1, 1)>>), CHK(1), ADV(1), ARGC_CAP(1, 1, RESPB_MAX_ARGS - 1, 1, RESPB_MAX_ARGS - 1)>>
      [] op = RESPB_OP_ZSCAN ->   \* :793
           <<S2(0), CHK(8), ADV(8), ARGC(1)>>
      [] op = RESPB_OP_ZMPOP ->   \* :801
           <<CHK(2), RD16("count"), ADV(2), FOR(1, 0, <<S2i(1, 0)>>), CHK(1), ADV(1), ARGC_CAP(0, 1, RESPB_MAX_ARGS, 1, RESPB_MAX_ARGS)>>
      [] op = RESPB_OP_BZMPOP ->   \* :814
           <<CHK(8), ADV(8), CHK(2), RD16("count"), ADV(2), FOR(1, 0, <<S2i(1, 0)>>), CHK(1), ADV(1), ARGC_CAP(0, 1, RESPB_MAX_ARGS, 1, RESPB_MAX_ARGS)>>
      [] op = RESPB_OP_ZRANGESTORE ->   \* :829
           <<S2(0), S2(1), CHK(17), ADV(17), ARGC(2)>>
      [] op = RESPB_OP_ZINTERCARD ->   \* :838
           <<CHK(2), RD16("count"), ADV(2), FOR(1, 0, <<S2i(1, 0)>>), ARGC_CAP(0, 1, RESPB_MAX_ARGS, 1, RESPB_MAX_ARGS)>>
      [] op \in {RESPB_OP_ZCARD, RESPB_OP_ZPOPMIN, RESPB_OP_ZPOPMAX} ->   \* :850
           <<S2(0), ARGC(1)>>
      [] op \in {RESPB_OP_ZCOUNT, RESPB_OP_ZREMRANGEBYRANK} ->   \* :857
           <<S2(0), CHK(16), ADV(16), ARGC(1)>>
      [] op = RESPB_OP_ZINCRBY ->   \* :865
           <<S2(0), CHK(8), ADV(8), S2(1), ARGC(2)>>
      [] op \in {RESPB_OP_ZRANK, RESPB_OP_ZREVRANK} ->   \* :873
           <<S2(0), S2(1), CHK(1), ADV(1), ARGC(2)>>
      [] op = RESPB_OP_ZMSCORE ->   \* :882
           <<S2(0), CHK(2), RD16("count"), ADV(2), FOR(1, 1, <<S2i(1, 1)>>), ARGC_CAP(1, 1, RESPB_MAX_ARGS - 1, 1, RESPB_MAX_ARGS - 1)>>
      [] op = RESPB_OP_ZREMRANGEBYSCORE ->   \* :894
           <<S2(0), CHK(16), ADV(16), ARGC(1)>>
      [] OTHER -> NoCase

(* respb_parse_command, "Connection Management" cases of the switch (respb_parser.c:903-942). *)
ShapeConnection(op) ==
    CASE op = RESPB_OP_PING ->   \* :903
           <<ARGC(0)>>
      [] op = RESPB_OP_ECHO ->   \* :908
           <<S2(0), ARGC(1)>>
      [] op = RESPB_OP_AUTH ->   \* :913
           <<S2(0), ARGC(1)>>
      [] op = RESPB_OP_SELECT ->   \* :919
           <<CHK(2), ADV(2), ARGC(0)>>
      [] op \in {RESPB_OP_QUIT, RESPB_OP_RESET} ->   \* :925
           <<ARGC(0)>>
      [] op = RESPB_OP_HELLO ->   \* :930
           <<CHK(1), ADV(1), ARGC(0)>>
      [] op = RESPB_OP_CLIENT ->   \* :937
           <<CHK(1), ADV(1), ARGC(0)>>
      [] OTHER -> NoCase

(* A switch without the cluster cases: their opcodes reach the default. *)
ShapeCluster_Missing(op) ==
    NoCase

(* respb_parse_command, "Cluster Management" cases of the switch (respb_parser.c:945-956). *)
ShapeCluster(op) ==
    CASE op = RESPB_OP_CLUSTER ->   \* :945
           <<CHK(1), ADV(1), ARGC(0)>>
      [] op \in {RESPB_OP_READONLY, RESPB_OP_READWRITE, RESPB_OP_ASKING} ->   \* :952
           <<ARGC(0)>>
      [] OTHER -> NoCase

(* respb_parse_command, "Server Management" cases of the switch (respb_parser.c:959-1068). *)
ShapeServer(op) ==
    CASE op \in {RESPB_OP_DBSIZE, RESPB_OP_SAVE, RESPB_OP_BGREWRITEAOF, RESPB_OP_LASTSAVE,
               RESPB_OP_TIME, RESPB_OP_ROLE, RESPB_OP_MONITOR, RESPB_OP_SYNC} ->   \* :959
           <<ARGC(0)>>
      [] op \in {RESPB_OP_FLUSHDB, RESPB_OP_FLUSHALL} ->   \* :970
           <<CHK(1), ADV(1), ARGC(0)>>
      [] op \in {RESPB_OP_BGSAVE, RESPB_OP_SHUTDOWN} ->   \* :977
           <<CHK(1), ADV(1), ARGC(0)>>
      [] op = RESPB_OP_INFO ->   \* :984
           <<CHK(2), RD16("count"), ADV(2), IFC("CNT_IN", <<S2(0)>>), ARGC_IF(1, 0)>>
      [] op \in {RESPB_OP_CONFIG, RESPB_OP_COMMAND, RESPB_OP_DEBUG, RESPB_OP_SLOWLOG, RESPB_OP_LATENCY,
               RESPB_OP_MEMORY, RESPB_OP_MODULE_CMD, RESPB_OP_ACL, RESPB_OP_COMMANDLOG} ->   \* :995
           <<CHK(1), ADV(1), ARGC(0)>>
      [] op \in {RESPB_OP_REPLICAOF, RESPB_OP_SLAVEOF} ->   \* :1010
           <<S2(0), CHK(2), ADV(2), ARGC(1)>>
      [] op = RESPB_OP_PSYNC ->   \* :1018
           <<S2(0), CHK(8), ADV(8), ARGC(1)>>
      [] op = RESPB_OP_REPLCONF ->   \* :1025
           <<CHK(2), RD16("count"), ADV(2), IFC("CNT_IN", <<S2(0)>>), ARGC_IF(1, 0)>>
      [] op = RESPB_OP_FAILOVER ->   \* :1036
           <<CHK(1), ADV(1), ARGC(0)>>
      [] op = RESPB_OP_SWAPDB ->   \* :1043
           <<CHK(4), ADV(4), ARGC(0)>>
      [] op = RESPB_OP_LOLWUT ->   \* :1049
           <<CHK(2), RD16("count"), ADV(2), IFC("CNT_IN", <<S2(0)>>), ARGC_IF(1, 0)>>
      [] op = RESPB_OP_RESTORE_ASKING ->   \* :1060
           <<S2(0), CHK(8), ADV(8), S4(1), CHK(1), ADV(1), ARGC(2)>>
      [] OTHER -> NoCase

(* respb_parse_command, "Transaction Operations" cases of the switch (respb_parser.c:1071-1087). *)
ShapeTransaction(op) ==
    CASE op \in {RESPB_OP_MULTI, RESPB_OP_EXEC, RESPB_OP_DISCARD, RESPB_OP_UNWATCH} ->   \* :1071
           <<ARGC(0)>>
      [] op = RESPB_OP_WATCH ->   \* :1078
           <<CHK(2), RD16("count"), ADV(2), FOR(1, 0, <<S2i(1, 0)>>), ARGC_CAP(0, 1, RESPB_MAX_ARGS, 1, RESPB_MAX_ARGS)>>
      [] OTHER -> NoCase

(* respb_parse_command, "Scripting and Functions" cases of the switch (respb_parser.c:1090-1323). *)
ShapeScriptingFunctions(op) ==
    CASE op = RESPB_OP_EVAL ->   \* :1090
           <<S4(0), CHK(2), RD16("count"), ADV(2), FOR(1, 1, <<S2i(1, 1)>>), CHK(2), RD16("numargs"), ADV(2), IFC("EVALARG", <<S2NK>>), ARGC_EVAL>>
      [] op = RESPB_OP_EVALSHA ->   \* :1108
           <<S2(0), CHK(2), RD16("count"), ADV(2), FOR(1, 1, <<S2i(1, 1)>>), CHK(2), RD16("numargs"), ADV(2), IFC("EVALARG", <<S2NK>>), ARGC_EVAL>>
      [] op = RESPB_OP_EVAL_RO ->   \* :1126
           <<S4(0), CHK(2), RD16("count"), ADV(2), FOR(1, 1, <<S2i(1, 1)>>), CHK(2), RD16("numargs"), ADV(2), IFC("EVALARG", <<S2NK>>), ARGC_EVAL>>
      [] op = RESPB_OP_EVALSHA_RO ->   \* :1144
           <<S2(0), CHK(2), RD16("count"), ADV(2), FOR(1, 1, <<S2i(1, 1)>>), CHK(2), RD16("numargs"), ADV(2), IFC("EVALARG", <<S2NK>>), ARGC_EVAL>>
      [] op = RESPB_OP_SCRIPT ->   \* :1162
           <<CHK(1), ADV(1), ARGC(0)>>
      [] op = RESPB_OP_FCALL ->   \* :1169
           <<S2(0), CHK(2), RD16("count"), ADV(2), FOR(1, 1, <<S2i(1, 1)>>), CHK(2), RD16("numargs"), ADV(2), IFC("EVALARG", <<S2NK>>), ARGC_EVAL>>
      [] op = RESPB_OP_FCALL_RO ->   \* :1187
           <<S2(0), CHK(2), RD16("count"), ADV(2), FOR(1, 1, <<S2i(1, 1)>>), CHK(2), RD16("numargs"), ADV(2), IFC("EVALARG", <<S2NK>>), ARGC_EVAL>>
      [] op = RESPB_OP_FUNCTION ->   \* :1205
           <<CHK(1), ADV(1), ARGC(0)>>
      [] op \in {RESPB_OP_TTL, RESPB_OP_PERSIST, RESPB_OP_PTTL, RESPB_OP_TYPE, RESPB_OP_EXPIRETIME,
               RESPB_OP_PEXPIRETIME, RESPB_OP_KEYS, RESPB_OP_DUMP} ->   \* :1212
           <<S2(0), ARGC(1)>>
      [] op \in {RESPB_OP_EXPIREAT, RESPB_OP_PEXPIRE, RESPB_OP_PEXPIREAT} ->   \* :1224
           <<S2(0), CHK(9), ADV(9), ARGC(1)>>
      [] op \in {RESPB_OP_RENAME, RESPB_OP_RENAMENX} ->   \* :1233
           <<S2(0), S2(1), ARGC(2)>>
      [] op = RESPB_OP_RANDOMKEY ->   \* :1240
           <<ARGC(0)>>
      [] op = RESPB_OP_SCAN ->   \* :1244
           <<CHK(8), ADV(8), ARGC(0)>>
      [] op = RESPB_OP_RESTORE ->   \* :1251
           <<S2(0), CHK(8), ADV(8), S4(1), CHK(1), ADV(1), ARGC(2)>>
      [] op = RESPB_OP_MIGRATE ->   \* :1261
           <<S2(0), CHK(2), ADV(2), S2(1), CHK(2), ADV(2), CHK(9), ADV(9), ARGC(2)>>
      [] op = RESPB_OP_MOVE ->   \* :1273
           <<S2(0), CHK(2), ADV(2), ARGC(1)>>
      [] op = RESPB_OP_COPY ->   \* :1280
           <<S2(0), S2(1), CHK(3), ADV(3), ARGC(2)>>
      [] op \in {RESPB_OP_SORT, RESPB_OP_SORT_RO} ->   \* :1288
           <<S2(0), ARGC(1)>>
      [] op = RESPB_OP_TOUCH ->   \* :1295
           <<CHK(2), RD16("count"), ADV(2), FOR(1, 0, <<S2i(1, 0)>>), ARGC_CAP(0, 1, RESPB_MAX_ARGS, 1, RESPB_MAX_ARGS)>>
      [] op = RESPB_OP_OBJECT ->   \* :1306
           <<CHK(1), ADV(1), S2(0), ARGC(1)>>
      [] op = RESPB_OP_WAIT ->   \* :1313
           <<CHK(16), ADV(16), ARGC(0)>>
      [] op = RESPB_OP_WAITAOF ->   \* :1319
           <<CHK(24), ADV(24), ARGC(0)>>
      [] OTHER -> NoCase

(* respb_parse_command, "Bitmap Operations" cases of the switch (respb_parser.c:1326-1373). *)
ShapeBitmap(op) ==
    CASE op = RESPB_OP_SETBIT ->   \* :1326
           <<S2(0), CHK(9), ADV(9), ARGC(1)>>
      [] op = RESPB_OP_GETBIT ->   \* :1333
           <<S2(0), CHK(8), ADV(8), ARGC(1)>>
      [] op = RESPB_OP_BITCOUNT ->   \* :1340
           <<S2(0), ARGC(1)>>
      [] op = RESPB_OP_BITPOS ->   \* :1346
           <<S2(0), CHK(1), ADV(1), ARGC(1)>>
      [] op = RESPB_OP_BITOP ->   \* :1354
           <<CHK(1), ADV(1), S2(0), CHK(2), RD16("count"), ADV(2), FOR(1, 1, <<S2i(1, 1)>>), ARGC_CAP(1, 1, RESPB_MAX_ARGS - 1, 1, RESPB_MAX_ARGS - 1)>>
      [] op \in {RESPB_OP_BITFIELD, RESPB_OP_BITFIELD_RO} ->   \* :1368
           <<S2(0), ARGC(1)>>
      [] OTHER -> NoCase

(* respb_parse_command, "HyperLogLog Operations" cases of the switch (respb_parser.c:1376-1419). *)
ShapeHyperloglog(op) ==
    CASE op = RESPB_OP_PFADD ->   \* :1376
           <<S2(0), CHK(2), RD16("count"), ADV(2), FOR(1, 1, <<S2i(1, 1)>>), ARGC_CAP(1, 1, RESPB_MAX_ARGS - 1, 1, RESPB_MAX_ARGS - 1)>>
      [] op = RESPB_OP_PFCOUNT ->   \* :1388
           <<CHK(2), RD16("count"), ADV(2), FOR(1, 0, <<S2i(1, 0)>>), ARGC_CAP(0, 1, RESPB_MAX_ARGS, 1, RESPB_MAX_ARGS)>>
      [] op = RESPB_OP_PFMERGE ->   \* :1399
           <<S2(0), CHK(2), RD16("count"), ADV(2), FOR(1, 1, <<S2i(1, 1)>>), ARGC_CAP(1, 1, RESPB_MAX_ARGS - 1, 1, RESPB_MAX_ARGS - 1)>>
      [] op = RESPB_OP_PFDEBUG ->   \* :1411
           <<S2(0), S2(1), ARGC(2)>>
      [] op = RESPB_OP_PFSELFTEST ->   \* :1417
           <<ARGC(0)>>
      [] OTHER -> NoCase

(* respb_parse_command, "Geospatial Operations" cases of the switch (respb_parser.c:1422-1484). *)
ShapeGeospatial(op) ==
    CASE op = RESPB_OP_GEOADD ->   \* :1422
           <<S2(0), CHK(3), ADV(3), ARGC(1)>>
      [] op = RESPB_OP_GEODIST ->   \* :1430
           <<S2(0), S2(1), S2(2), CHK(1), ADV(1), ARGC(3)>>
      [] op \in {RESPB_OP_GEOHASH, RESPB_OP_GEOPOS} ->   \* :1439
           <<S2(0), CHK(2), RD16("count"), ADV(2), FOR(1, 1, <<S2i(1, 1)>>), ARGC_CAP(1, 1, RESPB_MAX_ARGS - 1, 1, RESPB_MAX_ARGS - 1)>>
      [] op \in {RESPB_OP_GEORADIUS, RESPB_OP_GEORADIUS_RO} ->   \* :1452
           <<S2(0), CHK(18), ADV(18), ARGC(1)>>
      [] op \in {RESPB_OP_GEORADIUSBYMEMBER, RESPB_OP_GEORADIUSBYMEMBER_RO} ->   \* :1460
           <<S2(0), S2(1), CHK(10), ADV(10), ARGC(2)>>
      [] op = RESPB_OP_GEOSEARCH ->   \* :1469
           <<S2(0), CHK(1), ADV(1), ARGC(1)>>
      [] op = RESPB_OP_GEOSEARCHSTORE ->   \* :1477
           <<S2(0), S2(1), CHK(1), ADV(1), ARGC(2)>>
      [] OTHER -> NoCase

(* respb_parse_command, "Stream Operations" cases of the switch (respb_parser.c:1487-1634). *)
ShapeStream(op) ==
    CASE op = RESPB_OP_XADD ->   \* :1487
           <<S2(0), S2(1), CHK(2), RD16("count"), ADV(2), IFC("CNT_POS", <<S2(2)>>), ARGC_IF(3, 2)>>
      [] op = RESPB_OP_XLEN ->   \* :1501
           <<S2(0), ARGC(1)>>
      [] op \in {RESPB_OP_XRANGE, RESPB_OP_XREVRANGE} ->   \* :1506
           <<S2(0), S2(1), S2(2), ARGC(3)>>
      [] op = RESPB_OP_XREAD ->   \* :1516
           <<CHK(2), RD16("count"), ADV(2), FOR(2, 1, <<S2i(2, 0), S2i(2, 1)>>), ARGC_CAP(0, 2, RESPB_MAX_ARGS, 2, RESPB_MAX_ARGS)>>
      [] op = RESPB_OP_XREADGROUP ->   \* :1529
           <<S2(0), S2(1), CHK(2), RD16("count"), ADV(2), FOR(2, 2, <<S2i(2, 2), S2i(2, 3)>>), ARGC_CAP(2, 2, RESPB_MAX_ARGS - 2, 2, RESPB_MAX_ARGS - 2)>>
      [] op = RESPB_OP_XDEL ->   \* :1544
           <<S2(0), CHK(2), RD16("count"), ADV(2), IFC("CNT_POS", <<S2(1)>>), ARGC_IF(2, 1)>>
      [] op = RESPB_OP_XTRIM ->   \* :1556
           <<S2(0), CHK(10), ADV(10), ARGC(1)>>
      [] op = RESPB_OP_XACK ->   \* :1563
           <<S2(0), S2(1), CHK(2), RD16("count"), ADV(2), IFC("CNT_POS", <<S2(2)>>), ARGC_IF(3, 2)>>
      [] op = RESPB_OP_XPENDING ->   \* :1576
           <<S2(0), S2(1), ARGC(2)>>
      [] op = RESPB_OP_XCLAIM ->   \* :1583
           <<S2(0), S2(1), S2(2), CHK(8), ADV(8), CHK(2), RD16("count"), ADV(2), IFC("CNT_POS", <<S2(3)>>), CHK(1), ADV(1), ARGC_IF(4, 3)>>
      [] op = RESPB_OP_XAUTOCLAIM ->   \* :1601
           <<S2(0), S2(1), S2(2), CHK(8), ADV(8), S2(3), ARGC(4)>>
      [] op = RESPB_OP_XINFO ->   \* :1613
           <<CHK(1), ADV(1), S2(0), ARGC(1)>>
      [] op = RESPB_OP_XGROUP ->   \* :1621
           <<CHK(1), ADV(1), S2(0), ARGC(1)>>
      [] op = RESPB_OP_XSETID ->   \* :1629
           <<S2(0), S2(1), ARGC(2)>>
      [] OTHER -> NoCase

(* respb_parse_command, "Pub/Sub Operations" cases of the switch (respb_parser.c:1637-1680). *)
ShapePubsub(op) ==
    CASE op = RESPB_OP_PUBLISH ->   \* :1637
           <<S2(0), S4(1), ARGC(2)>>
      [] op = RESPB_OP_SPUBLISH ->   \* :1643
           <<S2(0), S4(1), ARGC(2)>>
      [] op \in {RESPB_OP_SUBSCRIBE, RESPB_OP_UNSUBSCRIBE, RESPB_OP_SSUBSCRIBE, RESPB_OP_SUNSUBSCRIBE} ->   \* :1649
           <<CHK(2), RD16("count"), ADV(2), FOR(1, 0, <<S2i(1, 0)>>), ARGC_CAP(0, 1, RESPB_MAX_ARGS, 1, RESPB_MAX_ARGS)>>
      [] op \in {RESPB_OP_PSUBSCRIBE, RESPB_OP_PUNSUBSCRIBE} ->   \* :1663
           <<CHK(2), RD16("count"), ADV(2), FOR(1, 0, <<S2i(1, 0)>>), ARGC_CAP(0, 1, RESPB_MAX_ARGS, 1, RESPB_MAX_ARGS)>>
      [] op = RESPB_OP_PUBSUB ->   \* :1675
           <<CHK(1), ADV(1), ARGC(0)>>
      [] OTHER -> NoCase
(* A module switch that reads two strings for every FT command. *)
ModuleShape_FtTwo(module_id, command_id) ==
    IF module_id = RESPB_MODULE_JSON THEN
        IF command_id = 0 THEN
            <<S2(0), S2(1), S4(2), CHK(1), ADV(1), ARGC(3)>>
        ELSE IF command_id = 1 THEN
            <<S2(0), CHK(2), RD16("count"), ADV(2), FOR(1, 1, <<S2i(1, 1)>>),
              ARGC_CAP(1, 1, RESPB_MAX_ARGS - 1, 1, RESPB_MAX_ARGS - 1)>>
        ELSE
            <<S2(0), ARGC(1)>>
    ELSE IF module_id = RESPB_MODULE_BF THEN
        IF command_id \in {0, 2} THEN
            <<S2(0), S2(1), ARGC(2)>>
        ELSE
            <<S2(0), ARGC(1)>>
    ELSE IF module_id = RESPB_MODULE_FT THEN
        <<S2(0), S2(1), ARGC(2)>>
    ELSE
        <<S2(0), ARGC(1)>>

(* respb_parse_command, case RESPB_OP_MODULE: the payload shape chosen by  *)
(* module_id and command_id after the 4-byte subcommand.                   *)
ModuleShape(module_id, command_id) ==
    IF module_id = RESPB_MODULE_JSON THEN
        IF command_id = 0 THEN          \* JSON.SET
            <<S2(0), S2(1), S4(2), CHK(1), ADV(1), ARGC(3)>>
        ELSE IF command_id = 1 THEN     \* JSON.GET
            <<S2(0), CHK(2), RD16("count"), ADV(2), FOR(1, 1, <<S2i(1, 1)>>),
              ARGC_CAP(1, 1, RESPB_MAX_ARGS - 1, 1, RESPB_MAX_ARGS - 1)>>
        ELSE                            \* generic JSON command
            <<S2(0), ARGC(1)>>
    ELSE IF module_id = RESPB_MODULE_BF THEN
        IF command_id = 0 THEN          \* BF.ADD
            <<S2(0), S2(1), ARGC(2)>>
        ELSE IF command_id = 2 THEN     \* BF.EXISTS
            <<S2(0), S2(1), ARGC(2)>>
        ELSE                            \* generic BF command
            <<S2(0), ARGC(1)>>
    ELSE IF module_id = RESPB_MODULE_FT THEN
        IF command_id = 1 THEN          \* FT.SEARCH
            <<S2(0), S2(1), ARGC(2)>>
        ELSE                            \* generic FT command
            <<S2(0), ARGC(1)>>
    ELSE                                \* unknown module
        <<S2(0), ARGC(1)>>

(* A passthrough case that leaves pos at the start of the RESP data. *)
ShapeSpecial_NoAdvance(op) ==
    CASE op = RESPB_OP_MODULE ->
           <<CHK(4), [k |-> "RD32MOD"], ADV(4), [k |-> "MODIDS"], [k |-> "MODSWITCH"]>>
      [] op = RESPB_OP_RESP_PASSTHROUGH ->
           <<CHK(4), [k |-> "RD32RESP"], ADV(4), [k |-> "CHKRESP"], [k |-> "RESPDATA"],
             ARGC(0)>>
      [] OTHER -> NoCase

(* respb_parse_command, cases RESPB_OP_MODULE and RESPB_OP_RESP_PASSTHROUGH. *)
(*   RD32MOD    cmd->module_subcommand = read_u32_be(buffer + pos)         *)
(*   MODIDS     cmd->module_id / cmd->command_id from the subcommand       *)
(*   MODSWITCH  the if-chain on module_id and command_id (ModuleShape)     *)
(*   RD32RESP   cmd->resp_length = read_u32_be(buffer + pos)               *)
(*   CHKRESP    CHECK_AVAIL(parser, cmd->resp_length)                      *)
(*   RESPDATA   cmd->resp_data = buffer + pos                              *)
(*   ADVRESP    parser->pos += cmd->resp_length                            *)
ShapeSpecial(op) ==
    CASE op = RESPB_OP_MODULE ->             \* :1684
           <<CHK(4), [k |-> "RD32MOD"], ADV(4), [k |-> "MODIDS"], [k |-> "MODSWITCH"]>>
      [] op = RESPB_OP_RESP_PASSTHROUGH ->   \* :1759
           <<CHK(4), [k |-> "RD32RESP"], ADV(4), [k |-> "CHKRESP"], [k |-> "RESPDATA"],
             [k |-> "ADVRESP"], ARGC(0)>>
      [] OTHER -> NoCase

(* The switch of respb_parse_command: the statements of the case whose     *)
(* label is op, or the default case (return -1) when no case has it.       *)
Shape(op) ==
    LET parts == <<ShapeString(op), ShapeList(op), ShapeSet(op), ShapeHash(op),
                   ShapeSortedSet(op), ShapeConnection(op), ShapeCluster(op),
                   ShapeServer(op), ShapeTransaction(op), ShapeScriptingFunctions(op),
                   ShapeBitmap(op), ShapeHyperloglog(op), ShapeGeospatial(op),
                   ShapeStream(op), ShapePubsub(op), ShapeSpecial(op)>>
        hit == {j \in 1..Len(parts) : parts[j] # NoCase}
    IN  IF hit = {} THEN <<[k |-> "DEFAULT"]>>
        ELSE parts[CHOOSE j \in hit : \A j2 \in hit : j <= j2]

(***************************************************************************)
(* The parser.  One call works on a record s:                              *)
(*   parser, cmd    the two structures the call is given                   *)
(*   done, ret      whether the call has returned, and what                *)
(*   count, numargs, flags, i    the locals of the case                    *)
(* and, to state the claims about memory:                                  *)
(*   avail          the end (pos + n) of the last successful CHECK_AVAIL   *)
(*   rd_max         the end of the highest byte range read from buffer     *)
(*   rd_unchecked   whether some read went past avail                      *)
(*   written        the indices i for which args[i] was assigned           *)
(***************************************************************************)

(* A CHECK_AVAIL that never returns: the header and every field are read   *)
(* whatever is left in the buffer.                                         *)
CHECK_AVAIL_Never(s, n) ==
    [s EXCEPT !.avail = s.parser.pos + n]

(* #define CHECK_AVAIL(parser, n): if (pos + n > buffer_len) return 0 *)
CHECK_AVAIL(s, n) ==
    IF s.parser.pos + n > s.parser.buffer_len
    THEN [s EXCEPT !.done = TRUE, !.ret = 0]
    ELSE [s EXCEPT !.avail = s.parser.pos + n]

(* The record of a read of n bytes at buffer + pos. *)
Touch(s, n) ==
    [s EXCEPT !.rd_max = Max(@, s.parser.pos + n),
              !.rd_unchecked = @ \/ (s.parser.pos + n > s.avail)]

(* A READ_STRING_2B without its first CHECK_AVAIL(parser, 2): the length  *)
(* prefix is read unchecked.                                               *)
READ_STRING_2B_NoCheck(s, idx) ==
    LET len == read_u16_be(s.parser.buffer, s.parser.pos)
        s2 == [Touch(s, 2) EXCEPT !.parser.pos = @ + 2]
        s3 == CHECK_AVAIL(s2, len)
    IN  IF s3.done THEN s3 ELSE
        [s3 EXCEPT !.cmd.args[idx] = [data |-> s3.parser.pos, len |-> len],
                   !.written = @ \cup {idx},
                   !.parser.pos = @ + len]

(* A READ_STRING_2B that stores the address of the length prefix as the    *)
(* string's data.                                                          *)
READ_STRING_2B_AtPrefix(s, idx) ==
    LET s1 == CHECK_AVAIL(s, 2) IN
    IF s1.done THEN s1 ELSE
    LET len == read_u16_be(s1.parser.buffer, s1.parser.pos)
        s2 == [Touch(s1, 2) EXCEPT !.parser.pos = @ + 2]
        s3 == CHECK_AVAIL(s2, len)
    IN  IF s3.done THEN s3 ELSE
        [s3 EXCEPT !.cmd.args[idx] = [data |-> s1.parser.pos, len |-> len],
                   !.written = @ \cup {idx},
                   !.parser.pos = @ + len]

(* #define READ_STRING_2B(parser, arg_ptr), arg_ptr = &cmd->args[idx] *)
READ_STRING_2B(s, idx) ==
    LET s1 == CHECK_AVAIL(s, 2) IN
    IF s1.done THEN s1 ELSE
    LET len == read_u16_be(s1.parser.buffer, s1.parser.pos)
        s2 == [Touch(s1, 2) EXCEPT !.parser.pos = @ + 2]
        s3 == CHECK_AVAIL(s2, len)
    IN  IF s3.done THEN s3 ELSE
        [s3 EXCEPT !.cmd.args[idx] = [data |-> s3.parser.pos, len |-> len],
                   !.written = @ \cup {idx},
                   !.parser.pos = @ + len]

(* #define READ_STRING_4B(parser, arg_ptr), arg_ptr = &cmd->args[idx] *)
READ_STRING_4B(s, idx) ==
    LET s1 == CHECK_AVAIL(s, 4) IN
    IF s1.done THEN s1 ELSE
    LET len == read_u32_be(s1.parser.buffer, s1.parser.pos)
        s2 == [Touch(s1, 4) EXCEPT !.parser.pos = @ + 4]
        s3 == CHECK_AVAIL(s2, len)
    IN  IF s3.done THEN s3 ELSE
        [s3 EXCEPT !.cmd.args[idx] = [data |-> s3.parser.pos, len |-> len],
                   !.written = @ \cup {idx},
                   !.parser.pos = @ + len]

(* The conditions of the if statements in the switch. *)
Cond(s, c) ==
    CASE c = "CNT_IN" -> s.count > 0 /\ s.count < RESPB_MAX_ARGS
      [] c = "CNT_POS" -> s.count > 0
      [] c = "FLAG1" -> (s.flags % 2) = 1                \* flags & 0x01
      [] c = "EVALARG" -> s.numargs > 0 /\ s.count + 1 < RESPB_MAX_ARGS
      [] c = "POS_LT_LEN" -> s.parser.pos < s.parser.buffer_len

(* An argc computed from the declared count without the cap. *)
ArgcCap_Uncapped(count, base, tm, thr, mul, cap) ==
    base + count * mul

(* base + (count * tm < thr ? count * mul : cap): the capped argc forms.   *)
(* The operands are uint16_t promoted to int: no wrap for count <= 65535.  *)
ArgcCap(count, base, tm, thr, mul, cap) ==
    base + (IF count * tm < thr THEN count * mul ELSE cap)

(* The right-hand sides of cmd->argc = ... *)
ArgcValue(s, st) ==
    CASE st.f = "const" -> st.a
      [] st.f = "cap" -> ArgcCap(s.count, st.base, st.tm, st.thr, st.mul, st.cap)
      [] st.f = "if" -> IF s.count > 0 THEN st.a ELSE st.b
      [] st.f = "eval" ->
           LET n == s.count + (IF s.numargs > 0 THEN 1 ELSE 0) + 1
           IN  IF n < RESPB_MAX_ARGS THEN n ELSE RESPB_MAX_ARGS

RECURSIVE RunSteps(_, _)
RECURSIVE RunLoop(_, _, _)
RECURSIVE Exec(_, _)

(* One statement of a case. *)
Exec(s, st) ==
    CASE st.k = "S2" -> READ_STRING_2B(s, s.i * st.m + st.c)
      [] st.k = "S4" -> READ_STRING_4B(s, s.i * st.m + st.c)
      [] st.k = "S2NK" -> READ_STRING_2B(s, s.count + 1)
      [] st.k = "CHK" -> CHECK_AVAIL(s, st.n)
      [] st.k = "ADV" -> [s EXCEPT !.parser.pos = @ + st.n]
      [] st.k = "RD16" ->
           LET v == read_u16_be(s.parser.buffer, s.parser.pos)
           IN  IF st.r = "numargs" THEN [Touch(s, 2) EXCEPT !.numargs = v]
               ELSE [Touch(s, 2) EXCEPT !.count = v]
      [] st.k = "RD8" -> [Touch(s, 1) EXCEPT !.flags = Byte(s.parser.buffer, s.parser.pos)]
      [] st.k = "FOR" -> RunLoop(s, st, 0)
      [] st.k = "IF" -> IF Cond(s, st.c) THEN RunSteps(s, st.body) ELSE s
      [] st.k = "ARGC" -> [s EXCEPT !.cmd.argc = ArgcValue(s, st)]
      [] st.k = "RD32MOD" ->
           [Touch(s, 4) EXCEPT
              !.cmd.module_subcommand = read_u32_be(s.parser.buffer, s.parser.pos)]
      [] st.k = "MODIDS" ->
           [s EXCEPT !.cmd.module_id = (s.cmd.module_subcommand \div 65536) % 65536,
                     !.cmd.command_id = s.cmd.module_subcommand % 65536]
      [] st.k = "MODSWITCH" ->
           RunSteps(s, ModuleShape(s.cmd.module_id, s.cmd.command_id))
      [] st.k = "RD32RESP" ->
           [Touch(s, 4) EXCEPT
              !.cmd.resp_length = read_u32_be(s.parser.buffer, s.parser.pos)]
      [] st.k = "CHKRESP" -> CHECK_AVAIL(s, s.cmd.resp_length)
      [] st.k = "RESPDATA" -> [s EXCEPT !.cmd.resp_data = s.parser.pos]
      [] st.k = "ADVRESP" -> [s EXCEPT !.parser.pos = @ + s.cmd.resp_length]
      [] st.k = "DEFAULT" -> [s EXCEPT !.done = TRUE, !.ret = -1]

(* for (uint16_t i = 0; i < count && i * m + g < RESPB_MAX_ARGS; i++) body *)
RunLoop(s, st, i) ==
    IF s.done \/ ~(i < s.count /\ i * st.m + st.g < RESPB_MAX_ARGS) THEN s
    ELSE RunLoop(RunSteps([s EXCEPT !.i = i], st.body), st, i + 1)

(* The statements of a case in order, up to the first return. *)
RunSteps(s, steps) ==
    IF s.done \/ steps = <<>> THEN s
    ELSE RunSteps(Exec(s, Head(steps)), Tail(steps))

(* respb_parse_command, the header: opcode and mux_id are read, pos moves  *)
(* past the 4 header bytes, argc is cleared and raw_payload is set.        *)
ParseHeader(s) ==
    LET p == s.parser.pos
    IN  [Touch(s, 4) EXCEPT
            !.cmd.opcode = read_u16_be(s.parser.buffer, p),
            !.cmd.mux_id = read_u16_be(s.parser.buffer, p + 2),
            !.parser.pos = p + 4,
            !.cmd.argc = 0,
            !.cmd.raw_payload = p + 4]

(* int respb_parse_command(respb_parser_t *parser, respb_command_t *cmd):  *)
(* the call's final record; ret is the value returned.                     *)
respb_parse_command(parser, cmd) ==
    LET s0 == [parser |-> parser, cmd |-> cmd, done |-> FALSE, ret |-> 1,
               count |-> 0, numargs |-> 0, flags |-> 0, i |-> 0,
               avail |-> parser.pos, rd_max |-> 0, rd_unchecked |-> FALSE,
               written |-> {}]
        s1 == CHECK_AVAIL(s0, 4)
    IN  IF s1.done THEN s1 ELSE
        LET s2 == ParseHeader(s1)
            payload_start == s2.parser.pos
            s3 == RunSteps(s2, Shape(s2.cmd.opcode))
        IN  IF s3.done THEN s3
            ELSE [s3 EXCEPT !.cmd.raw_payload_len = s3.parser.pos - payload_start]

(* void respb_parser_init(respb_parser_t *parser, const uint8_t *buf, size_t len) *)
respb_parser_init(buf, len) == [buffer |-> buf, buffer_len |-> len, pos |-> 0]


(***************************************************************************)
(* The serializer.  One call works on a record w:                          *)
(*   buf, buf_len   the output array (buf_len bytes) and its size          *)
(*   pos            the local size_t pos                                   *)
(*   done, ret      whether the call has returned, and what                *)
(*   wr_max         the end of the highest byte range written              *)
(* The command given to the serializer holds its arguments in the caller's *)
(* memory: args[i].data is the byte sequence the pointer points to, and    *)
(* resp_data likewise.                                                     *)
(***************************************************************************)

(* Stores the bytes at buf + off.  A store past the end of the array is    *)
(* recorded in wr_max; the array keeps the part that falls inside it.      *)
WriteAt(w, off, bytes) ==
    [w EXCEPT !.buf = LET lo == IF off < Len(@) THEN off ELSE Len(@)
                          hi == IF off + Len(bytes) < Len(@) THEN off + Len(bytes)
                                ELSE Len(@)
                      IN  SubSeq(@, 1, lo) \o SubSeq(bytes, 1, hi - lo)
                              \o SubSeq(@, hi + 1, Len(@)),
              !.wr_max = IF Len(bytes) > 0 THEN Max(@, off + Len(bytes)) ELSE @]

(* void respb_write_u16(uint8_t *buf, uint16_t val), buf = w.buf + off *)
respb_write_u16(w, off, val) ==
    WriteAt(w, off, <<(val \div 256) % 256, val % 256>>)

(* void respb_write_u32(uint8_t *buf, uint32_t val), buf = w.buf + off *)
respb_write_u32(w, off, val) ==
    WriteAt(w, off, <<(val \div 16777216) % 256, (val \div 65536) % 256,
                      (val \div 256) % 256, val % 256>>)

(* void respb_write_u64(uint8_t *buf, uint64_t val), buf = w.buf + off;    *)
(* the callers pass 0 and 1 only.                                          *)
respb_write_u64(w, off, val) ==
    WriteAt(w, off, <<0, 0, 0, 0, (val \div 16777216) % 256, (val \div 65536) % 256,
                      (val \div 256) % 256, val % 256>>)

(* size_t respb_serialize_header(buf, opcode, mux_id): returns 4 *)
respb_serialize_header(w, off, opcode, mux_id) ==
    respb_write_u16(respb_write_u16(w, off, opcode), off + 2, mux_id)

(* size_t respb_serialize_module_header(buf, mux_id, subcommand): returns 8 *)
respb_serialize_module_header(w, off, mux_id, subcommand) ==
    respb_write_u32(
        respb_write_u16(respb_write_u16(w, off, RESPB_OP_MODULE), off + 2, mux_id),
        off + 4, subcommand)

(* return 0 *)
Return0(w) == [w EXCEPT !.done = TRUE, !.ret = 0]

(* respb_write_u16(buf + pos, arg.len); pos += 2;                          *)
(* memcpy(buf + pos, arg.data, arg.len); pos += arg.len                    *)
PutString2(w, arg) ==
    LET w1 == respb_write_u16(w, w.pos, arg.len)
        w2 == WriteAt(w1, w.pos + 2, arg.data)
    IN  [w2 EXCEPT !.pos = w.pos + 2 + arg.len]

(* A serializer that writes values behind a 2-byte length. *)
PutString4_ShortPrefix(w, arg) ==
    LET w1 == respb_write_u16(w, w.pos, arg.len)
        w2 == WriteAt(w1, w.pos + 2, arg.data)
    IN  [w2 EXCEPT !.pos = w.pos + 2 + arg.len]

(* respb_write_u32(buf + pos, arg.len); pos += 4;                          *)
(* memcpy(buf + pos, arg.data, arg.len); pos += arg.len                    *)
PutString4(w, arg) ==
    LET w1 == respb_write_u32(w, w.pos, arg.len)
        w2 == WriteAt(w1, w.pos + 4, arg.data)
    IN  [w2 EXCEPT !.pos = w.pos + 4 + arg.len]

RECURSIVE PutList_NoCheck(_, _, _)
(* The loop over args without the test that the argument fits. *)
PutList_NoCheck(w, cmd, i) ==
    IF ~(i < cmd.argc) THEN w
    ELSE PutList_NoCheck(PutString2(w, cmd.args[i]), cmd, i + 1)

RECURSIVE PutList(_, _, _)
(* for (size_t i = from; i < cmd->argc; i++) {                             *)
(*     if (pos + 2 + cmd->args[i].len > buf_len) return 0;                 *)
(*     [2B len][bytes] of args[i] }                                        *)
PutList(w, cmd, i) ==
    IF ~(i < cmd.argc) THEN w
    ELSE IF w.pos + 2 + cmd.args[i].len > w.buf_len THEN Return0(w)
    ELSE PutList(PutString2(w, cmd.args[i]), cmd, i + 1)

RECURSIVE PutPairs(_, _, _)
(* for (size_t i = from; i < cmd->argc; i += 2) {                          *)
(*     if (pos + 2 + args[i].len + 4 + args[i + 1].len > buf_len) return 0;*)
(*     [2B len][bytes] of args[i], [4B len][bytes] of args[i + 1] }        *)
PutPairs(w, cmd, i) ==
    IF ~(i < cmd.argc) THEN w
    ELSE IF w.pos + 2 + cmd.args[i].len + 4 + cmd.args[i + 1].len > w.buf_len
         THEN Return0(w)
    ELSE PutPairs(PutString4(PutString2(w, cmd.args[i]), cmd.args[i + 1]), cmd, i + 2)

(* [2B len][bytes] of args[0], [2B len][bytes] of args[1], after the check *)
(* that both fit: the BF.ADD, FT.SEARCH and HGET bodies.                   *)
PutTwoStrings(w, cmd) ==
    IF w.pos + 2 + cmd.args[0].len + 2 + cmd.args[1].len > w.buf_len THEN Return0(w)
    ELSE PutString2(PutString2(w, cmd.args[0]), cmd.args[1])

(* respb_serialize_command, case RESPB_OP_MODULE after the header. *)
SerializeModule(w, cmd) ==
    IF cmd.module_id = RESPB_MODULE_JSON /\ cmd.command_id = 0 /\ cmd.argc >= 3 THEN
        IF w.pos + 2 + cmd.args[0].len + 2 + cmd.args[1].len + 4 + cmd.args[2].len + 1
               > w.buf_len
        THEN Return0(w)
        ELSE LET w3 == PutString4(PutString2(PutString2(w, cmd.args[0]), cmd.args[1]),
                                  cmd.args[2])
             IN  [WriteAt(w3, w3.pos, <<0>>) EXCEPT !.pos = w3.pos + 1]
    ELSE IF cmd.module_id = RESPB_MODULE_BF /\ cmd.command_id = 0 /\ cmd.argc >= 2 THEN
        PutTwoStrings(w, cmd)
    ELSE IF cmd.module_id = RESPB_MODULE_FT /\ cmd.command_id = 1 /\ cmd.argc >= 2 THEN
        PutTwoStrings(w, cmd)
    ELSE
        PutList(w, cmd, 0)

(* The opcodes that have a case of their own in the serializer's switch. *)
SerializerOpcodes ==
    {RESPB_OP_GET, RESPB_OP_INCR, RESPB_OP_DECR, RESPB_OP_TTL, RESPB_OP_LLEN,
     RESPB_OP_SCARD, RESPB_OP_SET, RESPB_OP_APPEND, RESPB_OP_INCRBY, RESPB_OP_DECRBY,
     RESPB_OP_MGET, RESPB_OP_DEL, RESPB_OP_EXISTS, RESPB_OP_MSET, RESPB_OP_LPUSH,
     RESPB_OP_RPUSH, RESPB_OP_SADD, RESPB_OP_HSET, RESPB_OP_HGET, RESPB_OP_PING,
     RESPB_OP_MULTI, RESPB_OP_EXEC, RESPB_OP_MODULE, RESPB_OP_RESP_PASSTHROUGH}

(* respb_serialize_command: the switch on cmd->opcode, after the header. *)
SerializePayload(w, cmd) ==
    LET op == cmd.opcode IN
    CASE op \in {RESPB_OP_GET, RESPB_OP_INCR, RESPB_OP_DECR, RESPB_OP_TTL,
                 RESPB_OP_LLEN, RESPB_OP_SCARD} ->
           IF cmd.argc < 1 THEN Return0(w)
           ELSE IF w.pos + 2 + cmd.args[0].len > w.buf_len THEN Return0(w)
           ELSE PutString2(w, cmd.args[0])
      [] op = RESPB_OP_SET ->
           IF cmd.argc < 2 THEN Return0(w)
           ELSE IF w.pos + 2 + cmd.args[0].len + 4 + cmd.args[1].len + 9 > w.buf_len
                THEN Return0(w)
           ELSE LET w2 == PutString4(PutString2(w, cmd.args[0]), cmd.args[1])
                    w3 == [WriteAt(w2, w2.pos, <<0>>) EXCEPT !.pos = w2.pos + 1]
                IN  [respb_write_u64(w3, w3.pos, 0) EXCEPT !.pos = w3.pos + 8]
      [] op = RESPB_OP_APPEND ->
           IF cmd.argc < 2 THEN Return0(w)
           ELSE IF w.pos + 2 + cmd.args[0].len + 4 + cmd.args[1].len > w.buf_len
                THEN Return0(w)
           ELSE PutString4(PutString2(w, cmd.args[0]), cmd.args[1])
      [] op \in {RESPB_OP_INCRBY, RESPB_OP_DECRBY} ->
           IF cmd.argc < 1 THEN Return0(w)
           ELSE IF w.pos + 2 + cmd.args[0].len + 8 > w.buf_len THEN Return0(w)
           ELSE LET w1 == PutString2(w, cmd.args[0])
                IN  [respb_write_u64(w1, w1.pos, 1) EXCEPT !.pos = w1.pos + 8]
      [] op \in {RESPB_OP_MGET, RESPB_OP_DEL, RESPB_OP_EXISTS} ->
           IF w.pos + 2 > w.buf_len THEN Return0(w)
           ELSE PutList([respb_write_u16(w, w.pos, cmd.argc) EXCEPT !.pos = w.pos + 2],
                        cmd, 0)
      [] op = RESPB_OP_MSET ->
           IF cmd.argc < 2 \/ cmd.argc % 2 # 0 THEN Return0(w)
           ELSE IF w.pos + 2 > w.buf_len THEN Return0(w)
           ELSE PutPairs([respb_write_u16(w, w.pos, cmd.argc \div 2)
                              EXCEPT !.pos = w.pos + 2], cmd, 0)
      [] op \in {RESPB_OP_LPUSH, RESPB_OP_RPUSH, RESPB_OP_SADD} ->
           IF cmd.argc < 1 THEN Return0(w)
           ELSE IF w.pos + 2 + cmd.args[0].len + 2 > w.buf_len THEN Return0(w)
           ELSE LET w1 == PutString2(w, cmd.args[0])
                IN  PutList([respb_write_u16(w1, w1.pos, cmd.argc - 1)
                                 EXCEPT !.pos = w1.pos + 2], cmd, 1)
      [] op = RESPB_OP_HSET ->
           IF cmd.argc < 1 \/ (cmd.argc - 1) % 2 # 0 THEN Return0(w)
           ELSE IF w.pos + 2 + cmd.args[0].len + 2 > w.buf_len THEN Return0(w)
           ELSE LET w1 == PutString2(w, cmd.args[0])
                IN  PutPairs([respb_write_u16(w1, w1.pos, (cmd.argc - 1) \div 2)
                                  EXCEPT !.pos = w1.pos + 2], cmd, 1)
      [] op = RESPB_OP_HGET ->
           IF cmd.argc < 2 THEN Return0(w) ELSE PutTwoStrings(w, cmd)
      [] op \in {RESPB_OP_PING, RESPB_OP_MULTI, RESPB_OP_EXEC} -> w
      [] op = RESPB_OP_MODULE ->
           IF w.buf_len < 8 THEN Return0(w)
           ELSE SerializeModule(
                    [respb_serialize_module_header(w, 0, cmd.mux_id, cmd.module_subcommand)
                        EXCEPT !.pos = 8], cmd)
      [] op = RESPB_OP_RESP_PASSTHROUGH ->
           IF w.buf_len < 8 THEN Return0(w)
           ELSE LET w1 == respb_write_u16(w, 0, RESPB_OP_RESP_PASSTHROUGH)
                    w2 == respb_write_u16(w1, 2, cmd.mux_id)
                    w3 == [respb_write_u32(w2, 4, cmd.resp_length) EXCEPT !.pos = 8]
                IN  IF w3.pos + cmd.resp_length > w3.buf_len THEN Return0(w3)
                    ELSE [WriteAt(w3, w3.pos, cmd.resp_data)
                              EXCEPT !.pos = w3.pos + cmd.resp_length]
      [] OTHER ->
           IF w.pos + 2 > w.buf_len THEN Return0(w)
           ELSE PutList([respb_write_u16(w, w.pos, cmd.argc) EXCEPT !.pos = w.pos + 2],
                        cmd, 0)

(* size_t respb_serialize_command(uint8_t *buf, size_t buf_len,            *)
(*                                const respb_command_t *cmd):             *)
(* the call's final record; ret is the value returned.                     *)
respb_serialize_command(buf, buf_len, cmd) ==
    LET w0 == [buf |-> buf, buf_len |-> buf_len, pos |-> 0, done |-> FALSE,
               ret |-> 0, wr_max |-> 0]
    IN  IF buf_len < 4 THEN Return0(w0)
        ELSE LET w1 == [respb_serialize_header(w0, 0, cmd.opcode, cmd.mux_id)
                            EXCEPT !.pos = 4]
                 w2 == SerializePayload(w1, cmd)
             IN  IF w2.done THEN w2 ELSE [w2 EXCEPT !.ret = w2.pos]
(***************************************************************************)
(* Inputs: the byte buffers the parser is run on.                          *)
(***************************************************************************)

(* Bounds of the inputs. *)
MaxCalls == 2        \* respb_parse_command calls made on one parser
MaxRepeat == 2       \* repeat count of the small well-formed frames
MaxPrefix == 2       \* bytes of arbitrary content after a header
PadShort == 40       \* zero bytes that complete every fixed-size payload
PadLong == 200       \* zero bytes that complete every capped repeat group
MaxTail == 16        \* longest all-zero payload of the payload-length sweep
MaxArgc == 3         \* arguments of the small commands given to the serializer
MaxBufLen == 24      \* largest output buffer of the buf_len sweep
LongKey == 65536     \* length of a key that a 2-byte length prefix cannot hold
BufBig == 300        \* an output buffer every command given here fits in
MaxResp == 3         \* longest short RESP data of a passthrough frame
RespLong == 258      \* a RESP data length that needs two length bytes
MaxKeys == 3         \* keys of the key lists with keys of several lengths

Zeros(n) == [j \in 1..n |-> 0]
u8(v) == <<v % 256>>
u16(v) == <<(v \div 256) % 256, v % 256>>
u32(v) == <<(v \div 16777216) % 256, (v \div 65536) % 256, (v \div 256) % 256, v % 256>>
u64(v) == <<0, 0, 0, 0>> \o u32(v)
str2(b) == u16(Len(b)) \o b
str4(b) == u32(Len(b)) \o b
Header(op, mux) == u16(op) \o u16(mux)

RECURSIVE Rep(_, _)
(* n copies of the byte sequence e *)
Rep(e, n) == IF n = 0 THEN <<>> ELSE e \o Rep(e, n - 1)

(* Sample contents: a key, a value, a mux id. *)
KeyK == <<107>>
ValV == <<118, 119>>
MuxSample == 258

(* Frames well formed for the shapes of the catalogue (the payload layout  *)
(* documented for each opcode), with n repeated elements.                  *)
FrameGET == Header(RESPB_OP_GET, MuxSample) \o str2(KeyK)
FrameSET == Header(RESPB_OP_SET, MuxSample) \o str2(KeyK) \o str4(ValV) \o u8(0) \o u64(0)
FrameINCRBY == Header(RESPB_OP_INCRBY, MuxSample) \o str2(KeyK) \o u64(5)
FrameLRANGE == Header(RESPB_OP_LRANGE, MuxSample) \o str2(KeyK) \o u64(0) \o u64(9)
FrameZRANGE == Header(RESPB_OP_ZRANGE, MuxSample) \o str2(KeyK) \o u64(0) \o u64(9) \o u8(1)
FrameKeys(op, n, key) == Header(op, MuxSample) \o u16(n) \o Rep(str2(key), n)
FrameMSET(n, key, val) ==
    Header(RESPB_OP_MSET, MuxSample) \o u16(n) \o Rep(str2(key) \o str4(val), n)
FrameLPUSH(n, key) ==
    Header(RESPB_OP_LPUSH, MuxSample) \o str2(key) \o u16(n) \o Rep(str2(key), n)
FrameHSET(op, n, key, val) ==
    Header(op, MuxSample) \o str2(key) \o u16(n) \o Rep(str2(key) \o str4(val), n)
FrameZADD(n) ==
    Header(RESPB_OP_ZADD, MuxSample) \o str2(KeyK) \o u8(0) \o u16(n)
        \o Rep(u64(3) \o str2(KeyK), n)
FrameXADD(n) ==
    Header(RESPB_OP_XADD, MuxSample) \o str2(KeyK) \o str2(KeyK) \o u16(n)
        \o Rep(str2(KeyK) \o str4(ValV), n)
FrameEVAL(nk, na) ==
    Header(RESPB_OP_EVAL, MuxSample) \o str4(ValV) \o u16(nk) \o Rep(str2(KeyK), nk)
        \o u16(na) \o Rep(str2(KeyK), na)
FrameJSONSET ==
    Header(RESPB_OP_MODULE, MuxSample) \o u32(RESPB_MODULE_JSON * 65536 + 0)
        \o str2(KeyK) \o str2(KeyK) \o str4(ValV) \o u8(0)
FrameBFADD ==
    Header(RESPB_OP_MODULE, MuxSample) \o u32(RESPB_MODULE_BF * 65536 + 0)
        \o str2(KeyK) \o str2(KeyK)
FramePASS(n) == Header(RESPB_OP_RESP_PASSTHROUGH, MuxSample) \o u32(n) \o Rep(<<42>>, n)

SmallFrames ==
    {FrameGET, FrameSET, FrameINCRBY, FrameLRANGE, FrameZRANGE, FrameJSONSET, FrameBFADD}
    \cup {FrameKeys(op, n, KeyK) : op \in {RESPB_OP_MGET, RESPB_OP_DEL}, n \in 0..MaxRepeat}
    \cup {FrameMSET(n, KeyK, ValV) : n \in 0..MaxRepeat}
    \cup {FrameLPUSH(n, KeyK) : n \in 0..MaxRepeat}
    \cup {FrameHSET(RESPB_OP_HSET, n, KeyK, ValV) : n \in 0..MaxRepeat}
    \cup {FrameZADD(n) : n \in 0..MaxRepeat}
    \cup {FrameXADD(n) : n \in 0..MaxRepeat}
    \cup {FrameEVAL(nk, na) : nk \in 0..MaxRepeat, na \in 0..MaxRepeat}
    \cup {FramePASS(n) : n \in 0..MaxRepeat}

(* Well-formed frames whose repeat count is at, or over, the argument cap  *)
(* (empty keys and values keep them short).                                *)
BigCounts ==
    {(RESPB_MAX_ARGS - 1) \div 2, RESPB_MAX_ARGS \div 2, RESPB_MAX_ARGS \div 2 + 1,
     RESPB_MAX_ARGS - 1, RESPB_MAX_ARGS, RESPB_MAX_ARGS + 1}
BigFrames ==
    {FrameKeys(op, n, <<>>) :
        op \in {RESPB_OP_MGET, RESPB_OP_DEL, RESPB_OP_EXISTS, RESPB_OP_UNLINK}, n \in BigCounts}
    \cup {FrameMSET(n, <<>>, <<>>) : n \in BigCounts}
    \cup {FrameLPUSH(n, <<>>) : n \in BigCounts}
    \cup {FrameHSET(op, n, <<>>, <<>>) : op \in {RESPB_OP_HSET, RESPB_OP_HMSET}, n \in BigCounts}

(* Passthrough frames: a declared length L followed by m bytes. *)
FramePASSm(L, m) == Header(RESPB_OP_RESP_PASSTHROUGH, MuxSample) \o u32(L) \o Rep(<<42>>, m)
PassLengths ==
    {<<L, m>> : L \in 0..MaxResp, m \in 0..(MaxResp + 1)}
        \cup {<<RespLong, m>> : m \in {RespLong - 1, RespLong, RespLong + 1}}

(* Module frames: a subcommand made of a module id and a command id, one   *)
(* string, and what follows it.                                            *)
KeySample == {<<>>, KeyK, ValV}
ModuleIdSample == {RESPB_MODULE_JSON, RESPB_MODULE_BF, RESPB_MODULE_FT, 3, 258, 32767}
CommandIdSample == {0, 1, 2, 3, 258, 65535}
FrameMODULE(mid, cid, rest) ==
    Header(RESPB_OP_MODULE, MuxSample) \o u32(mid * 65536 + cid) \o rest
ModuleRests ==
    {str2(key) \o Zeros(z) : key \in KeySample, z \in {0, 8}}
        \cup {SubSeq(str2(ValV), 1, t) : t \in 0..3}

RECURSIVE Cat(_)
(* the strings of a sequence, each behind its 2-byte length *)
Cat(keys) == IF keys = <<>> THEN <<>> ELSE str2(Head(keys)) \o Cat(Tail(keys))

(* Key lists (MGET, DEL, EXISTS, UNLINK): a count n and the keys. *)
FrameKeyList(op, n, keys) == Header(op, MuxSample) \o u16(n) \o Cat(keys)
KeyListOpcodes == {RESPB_OP_MGET, RESPB_OP_DEL, RESPB_OP_EXISTS, RESPB_OP_UNLINK}

(* Opcodes tried: every request opcode, its successor, the response        *)
(* opcodes, and 0xBEEF.                                                    *)
OpcodeSample ==
    RequestOpcodes \cup ResponseOpcodes \cup {(op + 1) % 65536 : op \in RequestOpcodes}
        \cup {48879}

(* The bytes of the arbitrary content.  127 is the largest first byte of a *)
(* 4-byte length whose value the model checker's integers can hold.        *)
ByteSample == {0, 1, 127}
RECURSIVE SeqsUpTo(_, _)
(* the sequences over S of length at most n *)
SeqsUpTo(S, n) ==
    IF n = 0 THEN {<<>>}
    ELSE LET shorter == SeqsUpTo(S, n - 1)
         IN  shorter \cup {q \o <<b>> : q \in {x \in shorter : Len(x) = n - 1}, b \in S}

RECURSIVE CountOffsetsFrom(_, _)
(* The payload offsets at which the statements read a 16-bit count when    *)
(* every string before it is empty and every earlier count is 0.           *)
CountOffsetsFrom(steps, off) ==
    IF steps = <<>> THEN {}
    ELSE LET st == Head(steps)
             size == CASE st.k \in {"S2", "S2NK"} -> 2
                       [] st.k = "S4" -> 4
                       [] st.k = "ADV" -> st.n
                       [] OTHER -> 0
         IN  (IF st.k = "RD16" THEN {off} ELSE {})
                 \cup CountOffsetsFrom(Tail(steps), off + size)

CountSample == {1, 31, 32, 63, 64, 65, 65535}

(* An input: the bytes, the end offset of each well-formed frame in them   *)
(* (<<>> when the bytes are not a concatenation of well-formed frames) and *)
(* which prior content the command record holds.                           *)
Inputs ==
    \* a header followed by arbitrary bytes, then zeros
    {[bytes |-> Header(op, MuxSample) \o pre \o Zeros(z), ends |-> <<>>, stale |-> 1] :
        op \in OpcodeSample, pre \in SeqsUpTo(ByteSample, MaxPrefix), z \in {0, PadShort}}
    \* a header followed by every number of zero bytes up to MaxTail
    \cup {[bytes |-> Header(op, MuxSample) \o Zeros(z), ends |-> <<>>, stale |-> 1] :
            op \in RequestOpcodes, z \in 0..MaxTail}
    \* a repeat count at an offset where the case reads one, then zeros
    \cup UNION {{[bytes |-> Header(op, MuxSample) \o Zeros(k) \o u16(c) \o Zeros(PadLong),
                   ends |-> <<>>, stale |-> 1] :
                    k \in CountOffsetsFrom(Shape(op), 0), c \in CountSample} :
                 op \in RequestOpcodes}
    \* one well-formed frame, and two in a row
    \cup {[bytes |-> f, ends |-> <<Len(f)>>, stale |-> st] :
            f \in SmallFrames \cup BigFrames, st \in {1, 2}}
    \cup {[bytes |-> f \o g, ends |-> <<Len(f), Len(f) + Len(g)>>, stale |-> 1] :
            f \in SmallFrames, g \in SmallFrames}
    \* a well-formed frame cut at every point inside it
    \cup UNION {{[bytes |-> SubSeq(f, 1, t), ends |-> <<>>, stale |-> 1] :
                    t \in 0..(Len(f) - 1)} : f \in SmallFrames}
    \* passthrough frames with as many, fewer and more bytes than declared
    \cup {[bytes |-> FramePASSm(lm[1], lm[2]),
           ends |-> IF lm[1] = lm[2] THEN <<8 + lm[1]>> ELSE <<>>, stale |-> 1] :
            lm \in PassLengths}
    \* module frames of every sampled module and command
    \cup {[bytes |-> FrameMODULE(mid, cid, rest), ends |-> <<>>, stale |-> 1] :
            mid \in ModuleIdSample, cid \in CommandIdSample, rest \in ModuleRests}
    \* key lists with keys of several lengths, and with one key missing
    \cup {[bytes |-> FrameKeyList(op, Len(keys), keys),
           ends |-> <<6 + Len(Cat(keys))>>, stale |-> 1] :
            op \in KeyListOpcodes, keys \in SeqsUpTo(KeySample, MaxKeys)}
    \cup {[bytes |-> FrameKeyList(op, Len(keys) + 1, keys), ends |-> <<>>, stale |-> 1] :
            op \in KeyListOpcodes, keys \in SeqsUpTo(KeySample, MaxKeys)}

(* A respb_command_t as a caller fills it for the serializer: argv are the *)
(* argument byte strings, at most RESPB_MAX_ARGS of them.  The caller sets *)
(* args[0..argc); the entries from argc on hold nothing and are left out.  *)
MkCmd(op, mux, argv, mid, cid, resp) ==
    [opcode |-> op, mux_id |-> mux, argc |-> Len(argv),
     args |-> [j \in 0..(Len(argv) - 1) |->
                  [data |-> argv[j + 1], len |-> Len(argv[j + 1])]],
     raw_payload |-> -1, raw_payload_len |-> 0,
     module_subcommand |-> mid * 65536 + cid, module_id |-> mid, command_id |-> cid,
     resp_length |-> Len(resp), resp_data |-> resp]

ArgSample == {<<>>, <<97, 98>>}
ModuleSample ==
    {<<RESPB_MODULE_JSON, 0>>, <<RESPB_MODULE_JSON, 1>>, <<RESPB_MODULE_JSON, 5>>,
     <<RESPB_MODULE_BF, 0>>, <<RESPB_MODULE_BF, 2>>, <<RESPB_MODULE_FT, 1>>,
     <<RESPB_MODULE_FT, 0>>, <<3, 0>>}
RespSample == {<<>>, <<43, 79, 75, 13, 10>>}

(* The calls of the serializer: a command and the size of the output       *)
(* buffer.                                                                 *)
SerializerInputs ==
    \* every request opcode with a few arguments, into a large buffer
    {[cmd |-> MkCmd(op, MuxSample, argv, RESPB_MODULE_JSON, 0, <<>>), buf_len |-> BufBig] :
        op \in RequestOpcodes, argv \in SeqsUpTo(ArgSample, MaxArgc)}
    \* the opcodes with a case of their own, and one without, into every small buffer
    \cup {[cmd |-> MkCmd(op, MuxSample, argv, RESPB_MODULE_JSON, 0, <<>>), buf_len |-> n] :
            op \in (SerializerOpcodes \ {RESPB_OP_MODULE, RESPB_OP_RESP_PASSTHROUGH})
                       \cup {RESPB_OP_STRLEN},
            argv \in SeqsUpTo(ArgSample, MaxArgc), n \in 0..MaxBufLen}
    \* module commands and RESP passthrough
    \cup {[cmd |-> MkCmd(RESPB_OP_MODULE, MuxSample, argv, m[1], m[2], <<>>), buf_len |-> n] :
            m \in ModuleSample, argv \in SeqsUpTo(ArgSample, MaxArgc),
            n \in {7, 8, 9, MaxBufLen - 1, MaxBufLen, BufBig}}
    \cup {[cmd |-> MkCmd(RESPB_OP_RESP_PASSTHROUGH, MuxSample, argv, 0, 0, resp),
           buf_len |-> n] :
            resp \in RespSample, argv \in SeqsUpTo(ArgSample, 1), n \in 0..MaxBufLen}
    \* one key at and over the largest length a 2-byte prefix holds, into a
    \* buffer with room for it
    \cup {[cmd |-> MkCmd(op, MuxSample, <<[j \in 1..n |-> 107]>>, 0, 0, <<>>),
           buf_len |-> n + 6] :
            op \in {RESPB_OP_GET, RESPB_OP_MGET}, n \in {LongKey - 1, LongKey}}
    \* argument counts at the cap
    \cup {[cmd |-> MkCmd(op, MuxSample, [j \in 1..n |-> <<>>], 0, 0, <<>>),
           buf_len |-> BufBig] :
            op \in {RESPB_OP_MGET, RESPB_OP_MSET, RESPB_OP_LPUSH, RESPB_OP_HSET,
                    RESPB_OP_STRLEN},
            n \in {RESPB_MAX_ARGS - 1, RESPB_MAX_ARGS}}

(***************************************************************************)
(* The reference RESP parser (valkey_resp_parser.c).  querybuf is a        *)
(* sequence of bytes, qb_pos an offset into it; argv is the sequence of    *)
(* the argc strings created so far.  The allocation size of an sds is not  *)
(* part of the client record here: sdsMakeRoomForNonGreedy changes nothing *)
(* else.                                                                   *)
(***************************************************************************)
PROTO_INLINE_MAX_SIZE == 65536   \* 1024 * 64
PROTO_MBULK_BIG_ARG == 32768     \* 1024 * 32
PROTO_REQ_MULTIBULK == 2
PROTO_REQ_INLINE == 1
READ_FLAGS_ERROR_BIG_MULTIBULK == 4                     \* 1 << 2
READ_FLAGS_ERROR_INVALID_MULTIBULK_LEN == 8             \* 1 << 3
READ_FLAGS_ERROR_UNAUTHENTICATED_MULTIBULK_LEN == 16    \* 1 << 4
READ_FLAGS_ERROR_UNAUTHENTICATED_BULK_LEN == 32         \* 1 << 5
READ_FLAGS_ERROR_BIG_BULK_COUNT == 64                   \* 1 << 6
READ_FLAGS_ERROR_MBULK_UNEXPECTED_CHARACTER == 128      \* 1 << 7
READ_FLAGS_ERROR_MBULK_INVALID_BULK_LEN == 256          \* 1 << 8
READ_FLAGS_PARSING_NEGATIVE_MBULK_LEN == 4096           \* 1 << 12
READ_FLAGS_PARSING_COMPLETED == 8192                    \* 1 << 13
READ_FLAGS_REPLICATED == 16384                          \* 1 << 14
READ_FLAGS_AUTH_REQUIRED == 65536                       \* 1 << 16
INT_MAX == 2147483647

(* flags & bit, for a bit that is a power of two *)
HasFlag(flags, bit) == (flags \div bit) % 2 = 1
(* flags | flag, for a flag that is 0 or a power of two *)
OrFlag(flags, flag) ==
    IF flag = 0 \/ HasFlag(flags, flag) THEN flags ELSE flags + flag

sdslen(s) == Len(s)

(* sdsrange(s, start, end): s becomes its bytes start..end, negative       *)
(* indexes counting from the end.                                          *)
sdsrange(s, start, end) ==
    LET len == Len(s)
        st1 == IF start < 0 THEN len + start ELSE start
        en1 == IF end < 0 THEN len + end ELSE end
        st2 == IF st1 < 0 THEN 0 ELSE st1
        en2 == IF en1 < 0 THEN 0 ELSE en1
        en3 == IF en2 >= len THEN len - 1 ELSE en2
        newlen == IF st2 > en3 THEN 0 ELSE en3 - st2 + 1
    IN  IF len = 0 THEN s ELSE SubSeq(s, st2 + 1, st2 + newlen)

(* memchr(buf + from, ch, sdslen(buf) - from): the offset in buf of the    *)
(* first byte ch at or after from, -1 for NULL.                            *)
memchr(buf, from, ch) ==
    LET hits == {j \in from..(Len(buf) - 1) : Byte(buf, j) = ch}
    IN  IF hits = {} THEN -1 ELSE CHOOSE j \in hits : \A k \in hits : j <= k

RECURSIVE DigitsValue(_, _)
(* the number written by the first n decimal digits of d *)
DigitsValue(d, n) ==
    IF n = 0 THEN 0 ELSE DigitsValue(d, n - 1) * 10 + (d[n] - 48)

RECURSIVE DigitsLeq(_, _)
(* a <= b for two digit strings of the same length *)
DigitsLeq(a, b) ==
    IF a = <<>> THEN TRUE
    ELSE IF Head(a) # Head(b) THEN Head(a) < Head(b)
    ELSE DigitsLeq(Tail(a), Tail(b))

(* digit strings without leading zero: a <= b as numbers *)
NumberLeq(a, b) == Len(a) < Len(b) \/ (Len(a) = Len(b) /\ DigitsLeq(a, b))

Digits_INT_MAX == <<50, 49, 52, 55, 52, 56, 51, 54, 52, 55>>
Digits_LLONG_MAX == <<57, 50, 50, 51, 51, 55, 50, 48, 51, 54, 56, 53, 52, 55, 55, 53, 56, 48, 55>>
Digits_LLONG_MIN == <<57, 50, 50, 51, 51, 55, 50, 48, 51, 54, 56, 53, 52, 55, 55, 53, 56, 48, 56>>

(* int string2ll(const char *s, size_t slen, long long *value).  The       *)
(* result is [ok, ll, over]: ok is the return value; ll is *value when it  *)
(* is within -INT_MAX..INT_MAX, otherwise over is TRUE and ll is INT_MAX   *)
(* or -INT_MAX (the integers here are 32 bits wide; every test the parser  *)
(* makes on the value has the same outcome for both).  The function        *)
(* accepts an optional '-', a first digit 1-9 and digits up to the end,    *)
(* or the single digit 0, and fails when the number is outside long long   *)
(* (the unsigned accumulator overflows or the final range test fails).     *)
string2ll(s) ==
    LET slen == Len(s)
        fail == [ok |-> FALSE, ll |-> 0, over |-> FALSE]
    IN  IF slen = 0 THEN fail
        ELSE IF slen = 1 /\ s[1] = 48 THEN [ok |-> TRUE, ll |-> 0, over |-> FALSE]
        ELSE LET negative == s[1] = 45
                 d == IF negative THEN Tail(s) ELSE s
             IN  IF d = <<>> THEN fail
                 ELSE IF ~(d[1] >= 49 /\ d[1] <= 57) THEN fail
                 ELSE IF \E j \in 1..Len(d) : ~(d[j] >= 48 /\ d[j] <= 57) THEN fail
                 ELSE IF ~NumberLeq(d, IF negative THEN Digits_LLONG_MIN ELSE Digits_LLONG_MAX)
                      THEN fail
                 ELSE LET over == ~NumberLeq(d, Digits_INT_MAX)
                          v == IF over THEN INT_MAX ELSE DigitsValue(d, Len(d))
                      IN  [ok |-> TRUE, ll |-> IF negative THEN 0 - v ELSE v, over |-> over]

(* A parser without the limit on a line that has no '\r' yet. *)
LineTooLong_Never(c) == FALSE

(* if (sdslen(c->querybuf) - c->qb_pos > PROTO_INLINE_MAX_SIZE), tested    *)
(* when the unread bytes hold no '\r'.                                     *)
LineTooLong(c) == sdslen(c.querybuf) - c.qb_pos > PROTO_INLINE_MAX_SIZE

(* An outcome of a part of parseMultibulk: the client, and what the        *)
(* function does next: "ret" (return flag), "break" (leave the loop) or    *)
(* "go" (continue with the next statement).                                *)
Out(c, how, flag) == [c |-> c, how |-> how, flag |-> flag]

(* parseMultibulk, the multibulk length r read from the line that ends at  *)
(* newline: the tests on it, and the client once it is accepted.           *)
AcceptMultibulkLen(c, newline, r) ==
    IF ~r.ok \/ r.over THEN Out(c, "ret", READ_FLAGS_ERROR_INVALID_MULTIBULK_LEN)
    ELSE IF r.ll > 10 /\ HasFlag(c.read_flags, READ_FLAGS_AUTH_REQUIRED)
    THEN Out(c, "ret", READ_FLAGS_ERROR_UNAUTHENTICATED_MULTIBULK_LEN)
    ELSE IF r.ll <= 0
    THEN Out([c EXCEPT !.qb_pos = newline + 2], "ret", READ_FLAGS_PARSING_NEGATIVE_MBULK_LEN)
    ELSE Out([c EXCEPT !.qb_pos = newline + 2,
                       !.multibulklen = r.ll,
                       !.bulklen = -1,
                       !.argv = <<>>,
                       !.argv_len = IF r.ll < 1024 THEN r.ll ELSE 1024,
                       !.argv_len_sum = 0,
                       !.net_input_bytes_curr_cmd = @ + (newline - (1 + c.qb_pos)) + 3],
             "go", 0)

(* parseMultibulk, if (c->multibulklen == 0) { ... }: the "*<count>" line. *)
ReadMultibulkLen(c) ==
    LET newline == memchr(c.querybuf, c.qb_pos, 13)
    IN  IF newline = -1 THEN
            IF LineTooLong(c) THEN Out(c, "ret", READ_FLAGS_ERROR_BIG_MULTIBULK)
            ELSE Out(c, "ret", 0)
        ELSE IF newline - c.qb_pos > sdslen(c.querybuf) - c.qb_pos - 2
             THEN Out(c, "ret", 0)
        ELSE AcceptMultibulkLen(c, newline,
                                string2ll(SubSeq(c.querybuf, c.qb_pos + 2, newline)))

(* parseMultibulk, if (!(is_replicated) && ll >= PROTO_MBULK_BIG_ARG): a  *)
(* query buffer that does not hold more than the argument is cut down to   *)
(* its unread bytes.                                                       *)
MakeRoomForBigArg(c, ll) ==
    IF ~HasFlag(c.read_flags, READ_FLAGS_REPLICATED) /\ ll >= PROTO_MBULK_BIG_ARG
          /\ sdslen(c.querybuf) - c.qb_pos <= ll + 2
    THEN [c EXCEPT !.querybuf = sdsrange(c.querybuf, c.qb_pos, -1),
                   !.qb_pos = 0,
                   !.querybuf_peak = IF @ < ll + 2 THEN ll + 2 ELSE @]
    ELSE c

(* parseMultibulk, the bulk length r read from the line that ends at       *)
(* newline: the tests on it, and the client once it is accepted.           *)
AcceptBulkLen(c, newline, r) ==
    IF ~r.ok \/ r.ll < 0
          \/ (~HasFlag(c.read_flags, READ_FLAGS_REPLICATED)
                /\ (r.over \/ r.ll > 512 * 1024 * 1024))
    THEN Out(c, "ret", READ_FLAGS_ERROR_MBULK_INVALID_BULK_LEN)
    ELSE IF r.ll > 16384 /\ HasFlag(c.read_flags, READ_FLAGS_AUTH_REQUIRED)
    THEN Out(c, "ret", READ_FLAGS_ERROR_UNAUTHENTICATED_BULK_LEN)
    ELSE Out([MakeRoomForBigArg([c EXCEPT !.qb_pos = newline + 2], r.ll) EXCEPT
                 !.bulklen = r.ll,
                 !.net_input_bytes_curr_cmd = @ + (newline - (c.qb_pos + 1)) + 3],
             "go", 0)

(* parseMultibulk, if (c->bulklen == -1) { ... }: the "$<length>" line. *)
ReadBulkLen(c) ==
    LET newline == memchr(c.querybuf, c.qb_pos, 13)
    IN  IF newline = -1 THEN
            IF LineTooLong(c) THEN Out(c, "ret", READ_FLAGS_ERROR_BIG_BULK_COUNT)
            ELSE Out(c, "break", 0)
        ELSE IF newline - c.qb_pos > sdslen(c.querybuf) - c.qb_pos - 2
             THEN Out(c, "ret", 0)
        ELSE IF Byte(c.querybuf, c.qb_pos) # 36
             THEN Out(c, "ret", READ_FLAGS_ERROR_MBULK_UNEXPECTED_CHARACTER)
        ELSE AcceptBulkLen(c, newline,
                           string2ll(SubSeq(c.querybuf, c.qb_pos + 2, newline)))

(* parseMultibulk, "Check if we have space in argv, grow if needed". *)
GrowArgv(c) ==
    LET grown == IF c.argv_len < INT_MAX \div 2 THEN c.argv_len * 2 ELSE INT_MAX
    IN  IF c.argc >= c.argv_len
        THEN [c EXCEPT !.argv_len = IF grown < c.argc + c.multibulklen
                                    THEN c.argc + c.multibulklen ELSE grown]
        ELSE c

(* A parser without the shortcut: every argument is a copy. *)
StoreBulkArg_AlwaysCopy(c) ==
    [c EXCEPT !.argv = Append(@, SubSeq(c.querybuf, c.qb_pos + 1, c.qb_pos + c.bulklen)),
              !.argc = @ + 1,
              !.argv_len_sum = @ + c.bulklen,
              !.qb_pos = @ + c.bulklen + 2,
              !.bulklen = -1,
              !.multibulklen = @ - 1]

(* parseMultibulk, the argument created from the bulk string: the query    *)
(* buffer itself when it holds just a big argument (a new, empty buffer    *)
(* replaces it), a copy of the bytes at qb_pos otherwise.                  *)
StoreBulkArg(c) ==
    IF ~HasFlag(c.read_flags, READ_FLAGS_REPLICATED) /\ c.qb_pos = 0
          /\ c.bulklen >= PROTO_MBULK_BIG_ARG /\ sdslen(c.querybuf) = c.bulklen + 2
    THEN [c EXCEPT !.argv = Append(@, SubSeq(c.querybuf, 1, c.bulklen)),
                   !.argc = @ + 1,
                   !.argv_len_sum = @ + c.bulklen,
                   !.querybuf = <<>>,
                   !.bulklen = -1,
                   !.multibulklen = @ - 1]
    ELSE [c EXCEPT !.argv = Append(@, SubSeq(c.querybuf, c.qb_pos + 1,
                                             c.qb_pos + c.bulklen)),
                   !.argc = @ + 1,
                   !.argv_len_sum = @ + c.bulklen,
                   !.qb_pos = @ + c.bulklen + 2,
                   !.bulklen = -1,
                   !.multibulklen = @ - 1]

(* parseMultibulk, "Read bulk argument": the body of one bulk string and   *)
(* its trailing \r\n.  (size_t)(bulklen + 2) is not computed here: the     *)
(* test is written with the 2 on the other side.                           *)
ReadBulkArg(c) ==
    IF sdslen(c.querybuf) - c.qb_pos - 2 < c.bulklen THEN Out(c, "break", 0)
    ELSE Out(StoreBulkArg(GrowArgv(c)), "go", 0)

RECURSIVE BulkLoop(_)
(* parseMultibulk, while (c->multibulklen) { ... }: after the length h,    *)
(* and after the argument a.                                               *)
AfterBulkArg(a) == IF a.how # "go" THEN a ELSE BulkLoop(a.c)
AfterBulkLen(h) == IF h.how # "go" THEN h ELSE AfterBulkArg(ReadBulkArg(h.c))
BulkLoop(c) ==
    IF c.multibulklen = 0 THEN Out(c, "go", 0)
    ELSE AfterBulkLen(IF c.bulklen = -1 THEN ReadBulkLen(c) ELSE Out(c, "go", 0))

(* A parser that reports a complete command and leaves reqtype as it was. *)
AfterBulkLoop_KeepType(w) ==
    IF w.how = "ret" THEN [c |-> w.c, flag |-> w.flag]
    ELSE IF w.c.multibulklen = 0
    THEN [c |-> [w.c EXCEPT !.net_input_bytes_curr_cmd = @ + w.c.argv_len_sum + w.c.argc * 2],
          flag |-> READ_FLAGS_PARSING_COMPLETED]
    ELSE [c |-> w.c, flag |-> 0]

(* parseMultibulk, "We're done when c->multibulklen == 0": w is what the   *)
(* loop left.                                                              *)
AfterBulkLoop(w) ==
    IF w.how = "ret" THEN [c |-> w.c, flag |-> w.flag]
    ELSE IF w.c.multibulklen = 0
    THEN [c |-> [w.c EXCEPT !.net_input_bytes_curr_cmd = @ + w.c.argv_len_sum + w.c.argc * 2,
                            !.reqtype = 0],
          flag |-> READ_FLAGS_PARSING_COMPLETED]
    ELSE [c |-> w.c, flag |-> 0]

(* parseMultibulk after the multibulk length h. *)
AfterMultibulkLen(h) ==
    IF h.how = "ret" THEN [c |-> h.c, flag |-> h.flag] ELSE AfterBulkLoop(BulkLoop(h.c))

(* static int parseMultibulk(valkey_client *c, ...): the client after the  *)
(* call and the flag returned, for a call in which every assert() holds    *)
(* (FailedAssert below says whether one does not).                         *)
parseMultibulk(c) ==
    AfterMultibulkLen(IF c.multibulklen = 0 THEN ReadMultibulkLen(c) ELSE Out(c, "go", 0))

(* void valkey_client_init(valkey_client *c, const uint8_t *buf, size_t len) *)
valkey_client_init(buf, len) ==
    [querybuf |-> SubSeq(buf, 1, len), qb_pos |-> 0, multibulklen |-> 0, bulklen |-> -1,
     reqtype |-> 0, read_flags |-> 0, argc |-> 0, argv |-> <<>>, argv_len |-> 0,
     argv_len_sum |-> 0, querybuf_peak |-> len, net_input_bytes_curr_cmd |-> 0]

(* The flags valkey_parse_command reports as an error. *)
ErrorFlags ==
    {READ_FLAGS_ERROR_BIG_MULTIBULK, READ_FLAGS_ERROR_INVALID_MULTIBULK_LEN,
     READ_FLAGS_ERROR_BIG_BULK_COUNT, READ_FLAGS_ERROR_MBULK_UNEXPECTED_CHARACTER,
     READ_FLAGS_ERROR_MBULK_INVALID_BULK_LEN}

(* valkey_parse_command, c->read_flags |= flag and the value returned for  *)
(* the flag p.flag of parseMultibulk.                                      *)
ReportFlag(p) ==
    [c |-> [p.c EXCEPT !.read_flags = OrFlag(@, p.flag)],
     ret |-> IF p.flag = READ_FLAGS_PARSING_COMPLETED THEN 1
             ELSE IF p.flag \in ErrorFlags THEN -1
             ELSE 0]

(* A parser that takes a request that is not a multibulk as incomplete. *)
ParseByType_InlineIncomplete(c) ==
    IF c.reqtype = PROTO_REQ_MULTIBULK THEN ReportFlag(parseMultibulk(c))
    ELSE [c |-> c, ret |-> 0]

(* valkey_parse_command once reqtype is known. *)
ParseByType(c) ==
    IF c.reqtype = PROTO_REQ_MULTIBULK THEN ReportFlag(parseMultibulk(c))
    ELSE [c |-> c, ret |-> -1]

(* The assert() of parseMultibulk whose condition is false in a call that  *)
(* starts from client c, as its line in the source, and 0 when all of them *)
(* hold: assert(argc is 0) on entering the count line, assert(the byte at  *)
(* qb_pos == '*') once a whole line is there, assert(c->multibulklen > 0)  *)
(* behind the count line.  The program is built with assert() enabled, so  *)
(* a false condition ends the process inside the call.                     *)
FailedAssert(c) ==
    IF c.multibulklen # 0 THEN (IF c.multibulklen > 0 THEN 0 ELSE 348)
    ELSE IF c.argc # 0 THEN 305
    ELSE LET newline == memchr(c.querybuf, c.qb_pos, 13)
         IN  IF newline = -1 THEN 0
             ELSE IF newline - c.qb_pos > sdslen(c.querybuf) - c.qb_pos - 2 THEN 0
             ELSE IF Byte(c.querybuf, c.qb_pos) # 42 THEN 325
             ELSE 0

(* Whether valkey_parse_command(c) reaches parseMultibulk and fails one of *)
(* its assertions there.                                                   *)
Aborts(c) ==
    /\ \/ c.reqtype = PROTO_REQ_MULTIBULK
       \/ c.reqtype = 0 /\ c.qb_pos < sdslen(c.querybuf) /\ Byte(c.querybuf, c.qb_pos) = 42
    /\ FailedAssert(c) # 0

(* int valkey_parse_command(valkey_client *c): the client after the call   *)
(* and the value returned.                                                 *)
valkey_parse_command(c) ==
    IF c.reqtype = 0 /\ c.qb_pos >= sdslen(c.querybuf) THEN [c |-> c, ret |-> 0]
    ELSE ParseByType(IF c.reqtype # 0 THEN c
                     ELSE IF Byte(c.querybuf, c.qb_pos) = 42
                          THEN [c EXCEPT !.reqtype = PROTO_REQ_MULTIBULK]
                          ELSE [c EXCEPT !.reqtype = PROTO_REQ_INLINE])

(***************************************************************************)
(* Inputs of the RESP parser.                                              *)
(***************************************************************************)
MaxBulks == 2        \* bulk strings of the small well-formed commands

CRLF == <<13, 10>>
RECURSIVE Dec(_)
(* the decimal digits of n *)
Dec(n) == IF n < 10 THEN <<48 + n>> ELSE Dec(n \div 10) \o <<48 + (n % 10)>>
Filler(n) == [j \in 1..n |-> 97]

(* "$<L>\r\n<L bytes>\r\n" and "*<N>\r\n" followed by N of them *)
Bulk(body) == <<36>> \o Dec(Len(body)) \o CRLF \o body \o CRLF
RECURSIVE Bulks(_)
Bulks(bodies) == IF bodies = <<>> THEN <<>> ELSE Bulk(Head(bodies)) \o Bulks(Tail(bodies))
Multibulk(bodies) == <<42>> \o Dec(Len(bodies)) \o CRLF \o Bulks(bodies)

BodySample == {<<>>, <<97>>, <<71, 69, 84>>}
SmallCommands == {bodies \in SeqsUpTo(BodySample, MaxBulks) : bodies # <<>>}
(* commands of 10 and of 11 empty arguments *)
ManyCommands == {[j \in 1..n |-> <<>>] : n \in {10, 11}}
(* commands with one long argument *)
LongBodies ==
    {Filler(n) : n \in {16384, 16385, PROTO_MBULK_BIG_ARG - 1, PROTO_MBULK_BIG_ARG}}

(* What stands where a count or a length is expected. *)
NumSample ==
    {<<>>, <<48>>, <<45, 49>>, <<45>>, <<45, 48>>, <<48, 49>>, <<49>>,
     <<50>>, <<49, 48>>, <<49, 49>>, <<97>>, <<49, 97>>, <<43, 49>>,
     <<50, 49, 52, 55, 52, 56, 51, 54, 52, 55>>,
     <<50, 49, 52, 55, 52, 56, 51, 54, 52, 56>>,
     <<57, 50, 50, 51, 51, 55, 50, 48, 51, 54, 56, 53, 52, 55, 55, 53, 56, 48, 55>>,
     <<57, 50, 50, 51, 51, 55, 50, 48, 51, 54, 56, 53, 52, 55, 55, 53, 56, 48, 56>>,
     <<57, 57, 57, 57, 57, 57, 57, 57, 57, 57, 57, 57, 57, 57, 57, 57, 57, 57, 57, 57>>,
     <<45, 57, 50, 50, 51, 51, 55, 50, 48, 51, 54, 56, 53, 52, 55, 55, 53, 56, 48, 56>>,
     <<45, 57, 50, 50, 51, 51, 55, 50, 48, 51, 54, 56, 53, 52, 55, 55, 53, 56, 48, 57>>}
BulkNumSample ==
    {<<49, 54, 51, 56, 52>>, <<49, 54, 51, 56, 53>>,
     <<53, 51, 54, 56, 55, 48, 57, 49, 50>>,
     <<53, 51, 54, 56, 55, 48, 57, 49, 51>>}

(* '*' and n - 1 bytes without '\r' *)
LineWithoutEnd(n) == <<42>> \o Filler(n - 1)

(* First bytes of a request that is not a multibulk: '$', '+', 'P', '\r',  *)
(* '\n', ')', a NUL and 0xFF.                                              *)
FirstByteSample == {36, 43, 80, 13, 10, 41, 0, 255}

(* An input: the bytes, and the well-formed commands they begin with. *)
RespInputs ==
    \* well-formed commands, one and two in a row
    {[bytes |-> Multibulk(b), cmds |-> <<b>>] : b \in SmallCommands \cup ManyCommands}
    \cup {[bytes |-> Multibulk(a) \o Multibulk(b), cmds |-> <<a, b>>] :
            a \in SmallCommands, b \in SmallCommands}
    \* a well-formed command cut at every point inside it
    \cup UNION {{[bytes |-> SubSeq(Multibulk(b), 1, t), cmds |-> <<>>] :
                    t \in 0..(Len(Multibulk(b)) - 1)} : b \in SmallCommands}
    \* every sampled count line, alone, before a bulk string and before a command
    \cup {[bytes |-> <<42>> \o n \o CRLF \o tail, cmds |-> <<>>] :
            n \in NumSample, tail \in {<<>>, Bulk(<<97>>), Multibulk(<<<<97>>>>)}}
    \* every sampled length line behind '$' and behind ':'
    \cup {[bytes |-> <<42>> \o Dec(1) \o CRLF \o <<lead>> \o n \o CRLF \o tail, cmds |-> <<>>] :
            lead \in {36, 58}, n \in NumSample \cup BulkNumSample,
            tail \in {<<>>, <<97>> \o CRLF}}
    \* '\r' not followed by '\n', and a request that is not a multibulk
    \cup {[bytes |-> x, cmds |-> <<>>] :
            x \in {<<42, 49, 13>>, <<42, 49, 13, 88>> \o Bulk(<<97>>),
                   <<42, 13, 97, 98, 99>>, <<80, 73, 78, 71>> \o CRLF}}
    \* a body that is not followed by "\r\n": "*1\r\n$1\r\naXY", and a body longer
    \* than its declared length, "*1\r\n$1\r\nabc\r\n"
    \cup {[bytes |-> <<42, 49>> \o CRLF \o <<36, 49>> \o CRLF \o rest, cmds |-> <<>>] :
            rest \in {<<97, 88, 89>>, <<97, 98, 99>> \o CRLF}}
    \* a first byte that is not '*', first in the buffer and behind a command
    \cup {[bytes |-> <<b>> \o tail, cmds |-> <<>>] :
            b \in FirstByteSample, tail \in {<<>>, Multibulk(<<<<97>>>>)}}
    \cup {[bytes |-> Multibulk(a) \o <<b>> \o CRLF, cmds |-> <<a>>] :
            a \in SmallCommands, b \in FirstByteSample}
    \* lines without '\r' at and over PROTO_INLINE_MAX_SIZE, first in the
    \* buffer, behind a command, and where a bulk length is expected
    \cup {[bytes |-> LineWithoutEnd(n), cmds |-> <<>>] :
            n \in {PROTO_INLINE_MAX_SIZE, PROTO_INLINE_MAX_SIZE + 1}}
    \cup {[bytes |-> Multibulk(<<<<97>>>>) \o LineWithoutEnd(n), cmds |-> <<<<<<97>>>>>>] :
            n \in {PROTO_INLINE_MAX_SIZE, PROTO_INLINE_MAX_SIZE + 1}}
    \cup {[bytes |-> <<42>> \o Dec(1) \o CRLF \o <<36>> \o Filler(n - 1), cmds |-> <<>>] :
            n \in {PROTO_INLINE_MAX_SIZE, PROTO_INLINE_MAX_SIZE + 1}}
    \* long arguments: last in the buffer, and with a command behind
    \cup {[bytes |-> Multibulk(<<body>>), cmds |-> <<<<body>>>>] : body \in LongBodies}
    \cup {[bytes |-> Multibulk(<<<<97>>, body>>), cmds |-> <<<<<<97>>, body>>>>] :
            body \in LongBodies}
    \cup {[bytes |-> Multibulk(<<body>>) \o Multibulk(<<<<97>>>>),
           cmds |-> <<<<body>>, <<<<97>>>>>>] : body \in LongBodies}

(* workload_type_t *)
WORKLOAD_FILE == 0
WORKLOAD_SMALL_KEYS == 1
WORKLOAD_MEDIUM_KEYS == 2
WORKLOAD_LARGE_VALUES == 3
WORKLOAD_MIXED == 4

(***************************************************************************)
(* Metrics (src/metrics.c).  benchmark_metrics_t is a record;              *)
(* latency_samples holds the entries of the array stored since             *)
(* benchmark_metrics_init, in index order (entry i of the array is element *)
(* i + 1), the other entries being 0 as memset left them.  The clock and   *)
(* resource fields (total_time_ns, cpu_time_us, peak_memory_kb) are not    *)
(* part of the record.  The integers here are 32 bits wide: latencies are  *)
(* small numbers and UINT64_MAX is the largest number there is.            *)
(***************************************************************************)
MAX_LATENCY_SAMPLES == 10000
UINT64_MAX == 2147483647

(* void benchmark_metrics_init(benchmark_metrics_t *metrics) *)
benchmark_metrics_init ==
    [commands_processed |-> 0, bytes_processed |-> 0,
     latency_samples |-> <<>>, latency_sample_count |-> 0,
     total_latency_ns |-> 0, min_latency_ns |-> UINT64_MAX, max_latency_ns |-> 0,
     avg_latency_ns |-> 0, p50_latency_ns |-> 0, p90_latency_ns |-> 0,
     p99_latency_ns |-> 0]

(* metrics->latency_samples[i] = latency_ns *)
StoreSample(samples, i, latency_ns) ==
    IF i < Len(samples) THEN [samples EXCEPT ![i + 1] = latency_ns]
    ELSE Append(samples, latency_ns)

(* Recording without the test against MAX_LATENCY_SAMPLES. *)
benchmark_record_latency_Uncapped(m, latency_ns) ==
    [m EXCEPT !.latency_samples = StoreSample(@, m.latency_sample_count, latency_ns),
              !.latency_sample_count = @ + 1,
              !.total_latency_ns = @ + latency_ns,
              !.min_latency_ns = IF latency_ns < @ THEN latency_ns ELSE @,
              !.max_latency_ns = IF latency_ns > @ THEN latency_ns ELSE @]

(* void benchmark_record_latency(benchmark_metrics_t *metrics,             *)
(*                               uint64_t latency_ns)                      *)
benchmark_record_latency(m, latency_ns) ==
    [m EXCEPT !.latency_samples =
                  IF m.latency_sample_count < MAX_LATENCY_SAMPLES
                  THEN StoreSample(@, m.latency_sample_count, latency_ns) ELSE @,
              !.latency_sample_count =
                  IF m.latency_sample_count < MAX_LATENCY_SAMPLES THEN @ + 1 ELSE @,
              !.total_latency_ns = @ + latency_ns,
              !.min_latency_ns = IF latency_ns < @ THEN latency_ns ELSE @,
              !.max_latency_ns = IF latency_ns > @ THEN latency_ns ELSE @]

(* The array left in the order it was filled. *)
qsort_Unsorted(samples, n) == samples

(* The number of the first n samples that are not greater than v. *)
NotGreater(samples, n, v) == Cardinality({j \in 1..n : samples[j] <= v})

(* Element k of the sorted array, ranks[v] being the number of samples not *)
(* greater than v: the least value whose rank reaches k.                   *)
SortedAt(ranks, k) ==
    CHOOSE v \in DOMAIN ranks :
        /\ ranks[v] >= k
        /\ \A w \in DOMAIN ranks : w < v => ranks[w] < k

SortedBy(samples, n, ranks) ==
    [k \in 1..Len(samples) |-> IF k <= n THEN SortedAt(ranks, k) ELSE samples[k]]

RanksOf(samples, n, values) == [v \in values |-> NotGreater(samples, n, v)]

(* qsort(metrics->latency_samples, n, sizeof(uint64_t), compare_uint64):   *)
(* the first n entries in ascending order.                                 *)
qsort(samples, n) ==
    SortedBy(samples, n, RanksOf(samples, n, {samples[j] : j \in 1..n}))

(* benchmark_compute_percentiles once the samples are sorted. *)
Percentiles(m, sorted) ==
    [m EXCEPT !.latency_samples = sorted,
              !.p50_latency_ns = sorted[(m.latency_sample_count * 50) \div 100 + 1],
              !.p90_latency_ns = sorted[(m.latency_sample_count * 90) \div 100 + 1],
              !.p99_latency_ns = sorted[(m.latency_sample_count * 99) \div 100 + 1],
              !.avg_latency_ns = m.total_latency_ns \div m.latency_sample_count]

(* void benchmark_compute_percentiles(benchmark_metrics_t *metrics) *)
benchmark_compute_percentiles(m) ==
    IF m.latency_sample_count = 0 THEN m
    ELSE Percentiles(m, qsort(m.latency_samples, m.latency_sample_count))

(* Latencies the clock gives: the one of the k-th command of a run, and    *)
(* those of the commands that follow.                                      *)
LatencyAt(k) == 2 + ((k * 7) % 9) * 11
LatencySample == {0, 5, 250}

(* The sampling of the benchmark loops for the k-th command of a run:      *)
(* if (sample_latency && metrics->latency_sample_count <                   *)
(* MAX_LATENCY_SAMPLES) benchmark_record_latency(metrics, latency_ns)      *)
SampleCommand(m, k) ==
    IF m.latency_sample_count < MAX_LATENCY_SAMPLES
    THEN benchmark_record_latency(m, LatencyAt(k)) ELSE m

RECURSIVE RecordRun(_, _, _)
(* The loop after the commands before lo, m being the metrics then: once   *)
(* the samples are full no later command is sampled.                       *)
RecordRest(m, lo, hi) ==
    IF m.latency_sample_count >= MAX_LATENCY_SAMPLES THEN m ELSE RecordRun(m, lo, hi)

(* The metrics after the commands lo..hi of a run with sample_latency. *)
RecordRun(m, lo, hi) ==
    IF lo > hi THEN m
    ELSE IF lo = hi THEN SampleCommand(m, lo)
    ELSE RecordRest(RecordRun(m, lo, (lo + hi) \div 2), (lo + hi) \div 2 + 1, hi)

(* How many commands a run has sampled when it is looked at. *)
MaxRecords == 3      \* calls made from there on
NearHundred == 98
NearCap == 9998
RecordedSample == {0, NearHundred, NearCap}

RECURSIVE SumOf(_, _, _)
(* samples[lo] + ... + samples[hi] *)
SumOf(samples, lo, hi) ==
    IF lo > hi THEN 0
    ELSE IF lo = hi THEN samples[lo]
    ELSE SumOf(samples, lo, (lo + hi) \div 2) + SumOf(samples, (lo + hi) \div 2 + 1, hi)

(***************************************************************************)
(* Workloads (src/workload.c).  A workload_t is a record: data holds the   *)
(* size bytes written so far, ptr tells the objects apart (0 is NULL).     *)
(* The text of a command is the sequence of its bytes.                     *)
(***************************************************************************)
RECURSIVE ZeroPad(_, _)
(* digits d preceded by '0's up to the width w *)
ZeroPad(d, w) == IF Len(d) >= w THEN d ELSE ZeroPad(<<48>> \o d, w)

(* snprintf's "%0<w>zu" of n (w = 1 for "%zu"): the decimal digits of n,   *)
(* preceded by zeros when they are fewer than w.                           *)
FormatZu(n, w) == ZeroPad(Dec(n), w)

(* "*2\r\n$3\r\nGET\r\n$6\r\nkey_" *)
TextGet ==
    <<42, 50, 13, 10, 36, 51, 13, 10, 71, 69, 84, 13, 10, 36, 54, 13, 10,
      107, 101, 121, 95>>
(* "*2\r\n$3\r\nDEL\r\n$6\r\nkey_" *)
TextDel ==
    <<42, 50, 13, 10, 36, 51, 13, 10, 68, 69, 76, 13, 10, 36, 54, 13, 10,
      107, 101, 121, 95>>
(* "*3\r\n$3\r\nSET\r\n$8\r\nkey_" *)
TextSet8 ==
    <<42, 51, 13, 10, 36, 51, 13, 10, 83, 69, 84, 13, 10, 36, 56, 13, 10,
      107, 101, 121, 95>>
(* "*3\r\n$3\r\nSET\r\n$6\r\nkey_" *)
TextSet6 ==
    <<42, 51, 13, 10, 36, 51, 13, 10, 83, 69, 84, 13, 10, 36, 54, 13, 10,
      107, 101, 121, 95>>
(* "*3\r\n$3\r\nSET\r\n$9\r\nlargekey" *)
TextSetLarge ==
    <<42, 51, 13, 10, 36, 51, 13, 10, 83, 69, 84, 13, 10, 36, 57, 13, 10,
      108, 97, 114, 103, 101, 107, 101, 121>>
(* "\r\n$50\r\n" *)
TextLen50 ==
    <<13, 10, 36, 53, 48, 13, 10>>
(* "\r\n$1024\r\n" *)
TextLen1024 ==
    <<13, 10, 36, 49, 48, 50, 52, 13, 10>>
(* "\r\n$6\r\nval_" *)
TextVal ==
    <<13, 10, 36, 54, 13, 10, 118, 97, 108, 95>>
(* "*4\r\n$4\r\nMGET\r\n$5\r\nkey_0\r\n$5\r\nkey_1\r\n$5\r\nkey_2\r\n" *)
TextMget ==
    <<42, 52, 13, 10, 36, 52, 13, 10, 77, 71, 69, 84, 13, 10, 36, 53, 13,
      10, 107, 101, 121, 95, 48, 13, 10, 36, 53, 13, 10, 107, 101, 121,
      95, 49, 13, 10, 36, 53, 13, 10, 107, 101, 121, 95, 50, 13, 10>>

(* const char *value_50, and char large_value[1024] after memset 'X' *)
value_50 == [j \in 1..50 |-> 88]
large_value == [j \in 1..1024 |-> 88]

(* The slack each loop keeps: while (wl->size + <slack> < target_size) *)
LoopSlack(type) ==
    CASE type = WORKLOAD_SMALL_KEYS -> 100
      [] type = WORKLOAD_MEDIUM_KEYS -> 200
      [] type = WORKLOAD_LARGE_VALUES -> 1100
      [] type = WORKLOAD_MIXED -> 200

(* case WORKLOAD_MIXED: what snprintf writes for choice = cmd_count % 4 *)
MixedText(cmd_count) ==
    CASE cmd_count % 4 = 0 -> TextGet \o FormatZu(cmd_count % 100, 2) \o CRLF
      [] cmd_count % 4 = 1 -> TextSet6 \o FormatZu(cmd_count % 100, 2) \o TextVal
                                  \o FormatZu(cmd_count % 100, 2) \o CRLF
      [] cmd_count % 4 = 2 -> TextDel \o FormatZu(cmd_count % 100, 2) \o CRLF
      [] cmd_count % 4 = 3 -> TextMget

(* What one pass of the loop of the type appends to the workload: the text *)
(* snprintf writes into temp_buf and, for the large values, the value and  *)
(* "\r\n" copied behind it.                                                *)
CommandText(type, size, cmd_count) ==
    CASE type = WORKLOAD_SMALL_KEYS -> TextGet \o FormatZu(size % 100, 2) \o CRLF
      [] type = WORKLOAD_MEDIUM_KEYS ->
             TextSet8 \o FormatZu(size % 1000, 4) \o TextLen50 \o value_50 \o CRLF
      [] type = WORKLOAD_LARGE_VALUES ->
             TextSetLarge \o FormatZu(size % 100, 1) \o TextLen1024 \o large_value \o CRLF
      [] type = WORKLOAD_MIXED -> MixedText(cmd_count)

(* workload_generate_synthetic before its loop: the workload is empty. *)
NewWorkload(ptr) == [data |-> <<>>, size |-> 0, current_pos |-> 0, ptr |-> ptr]

(* A pass that copies the terminating null byte of temp_buf as well. *)
AppendText_WithNul(w, text) ==
    [w EXCEPT !.data = @ \o text \o <<0>>, !.size = @ + Len(text) + 1]

(* memcpy(wl->data + wl->size, ..., len); wl->size += len *)
AppendText(w, text) == [w EXCEPT !.data = @ \o text, !.size = @ + Len(text)]

(* workload_t *workload_load(const char *filename), the file holding       *)
(* bytes: NULL for an empty file (files over 1 GiB are not among the       *)
(* inputs).                                                                *)
workload_load(bytes, ptr) ==
    IF Len(bytes) <= 0 THEN [data |-> <<>>, size |-> 0, current_pos |-> 0, ptr |-> 0]
    ELSE [data |-> bytes, size |-> Len(bytes), current_pos |-> 0, ptr |-> ptr]

(* int workload_has_more(const workload_t *wl) *)
workload_has_more(w) == w.current_pos < w.size
(* size_t workload_remaining(const workload_t *wl) *)
workload_remaining(w) == w.size - w.current_pos
(* void workload_reset(workload_t *wl) *)
workload_reset(w) == [w EXCEPT !.current_pos = 0]

(***************************************************************************)
(* The robj objects of the RESP parser.  heap.objs[o] is object o:         *)
(* refcount as decrRefCount left it, freed the number of times free(o) ran *)
(* for it, misused whether decrRefCount was given it after it was freed    *)
(* (what happens then is undefined).  heap.argv are the objects the        *)
(* entries 0..argc-1 of client.argv point to.                              *)
(***************************************************************************)
(* robj *createObject(int type, void *ptr), and its store at the entry     *)
(* argc++ of argv                                                          *)
createObject(h) ==
    [objs |-> Append(h.objs, [refcount |-> 1, freed |-> 0, misused |-> FALSE]),
     argv |-> Append(h.argv, Len(h.objs) + 1)]

RECURSIVE CreateObjects(_, _)
(* the n objects one parseMultibulk call created *)
CreateObjects(h, n) == IF n <= 0 THEN h ELSE CreateObjects(createObject(h), n - 1)

(* void decrRefCount(robj *o) *)
decrRefCount(objs, o) ==
    IF objs[o].freed > 0 THEN [objs EXCEPT ![o].misused = TRUE]
    ELSE IF objs[o].refcount - 1 = 0
    THEN [objs EXCEPT ![o].refcount = 0, ![o].freed = @ + 1]
    ELSE [objs EXCEPT ![o].refcount = @ - 1]

RECURSIVE ReleaseFrom(_, _, _)
(* for (int i = from; i < argc; i++) decrRefCount(argv[i]) *)
ReleaseFrom(objs, argv, i) ==
    IF i > Len(argv) THEN objs
    ELSE ReleaseFrom(decrRefCount(objs, argv[i]), argv, i + 1)

(* The loop over argv[0..argc) that releases every argument; argc is then  *)
(* set to 0 or the array is given up.                                      *)
ReleaseArgs(h) == [objs |-> ReleaseFrom(h.objs, h.argv, 1), argv |-> <<>>]

(* A valkey_client_free that releases no argument. *)
valkey_client_free_NoRelease(h) == [h EXCEPT !.argv = <<>>]

(* void valkey_client_free(valkey_client *c), for the objects: every       *)
(* argument below argc is released (argc is 0 when argv is NULL).          *)
valkey_client_free(h) == ReleaseArgs(h)

(***************************************************************************)
(* The state machine: a parser over one input buffer, and the command      *)
(* record the caller hands to every call.                                  *)
(***************************************************************************)
VARIABLES
    parser,        \* respb_parser_t: buffer, buffer_len, pos
    cmd,           \* respb_command_t, as left by the last call
    result,        \* the value the last call returned (0 before any call)
    calls,         \* number of calls made
    pos_before,    \* parser.pos when the last call started
    rd_max,        \* end of the highest byte range any call read
    rd_unchecked,  \* whether a call read past what its CHECK_AVAIL covered
    written,       \* indices of the args[] entries the last call assigned
    ends,          \* end offsets of the well-formed frames of the input
    stage,         \* what the caller does next: "serialize", "init", "parse",
                   \* "resp_call" or "resp_check", or where a metrics or
                   \* benchmark run is
    src,           \* the command given to the serializer
    wire,          \* the serializer's output array
    wire_len,      \* its size (buf_len)
    out_n,         \* the value respb_serialize_command returned
    wr_max,        \* end of the highest byte range the serializer wrote
    twin,          \* the same calls made with a command record of other prior
                   \* content: [cmd, ret, pos] after the last call
    client,        \* valkey_client: the RESP parser's client record
    client_before, \* what the last valkey_parse_command call started from
    wellformed,    \* the well-formed commands the RESP input begins with
    metrics,       \* benchmark_metrics_t of the benchmark that is running
    last_store,    \* index of latency_samples the last benchmark_record_latency
                   \* call stored at, -1 when it stored nothing
    config,        \* benchmark_config_t, and the content of the workload files
    wl,            \* the RESP workload (resp_workload): data, size, current_pos
    wlb,           \* the RESPB workload (respb_workload)
    gen,           \* workload_generate_synthetic: target_size, cmd_count, and
                   \* the end offsets of the commands emitted so far
    bench,         \* the benchmark function that is running: iter, the parse
                   \* calls made, and the value it returned (-1 before it returns)
    heap,          \* the robj objects created so far: objs[o] is object o
                   \* (refcount, times freed, misused after free), argv[i] the
                   \* object client.argv[i - 1] points to, for i <= client.argc
    run_ret,       \* the value run_benchmark returned (-1 before it returns)
    out            \* what run_benchmark printed: the metrics of a protocol, the comparison

benchvars == <<metrics, last_store, config, wl, wlb, gen, bench, heap, run_ret, out>>

vars ==
    <<parser, cmd, result, calls, pos_before, rd_max, rd_unchecked, written, ends,
      stage, src, wire, wire_len, out_n, wr_max, twin, client, client_before, wellformed,
      metrics, last_store, config, wl, wlb, gen, bench, heap, run_ret, out>>

(* A respb_command_t before its first use by the parser: the caller's      *)
(* stack or a previous use decides what it holds.  Two contents stand for  *)
(* it; pointers are offsets into the parser's buffer, -1 is one that does  *)
(* not point into it.                                                      *)
StaleCmd(st) ==
    LET w == IF st = 1 THEN 0 ELSE 43690
        a == IF st = 1 THEN [data |-> -1, len |-> 0] ELSE [data |-> 0, len |-> 1]
    IN  [opcode |-> w, mux_id |-> w, argc |-> IF st = 1 THEN 0 ELSE 7,
         args |-> [j \in 0..(RESPB_MAX_ARGS - 1) |-> a],
         raw_payload |-> -1, raw_payload_len |-> w,
         module_subcommand |-> w, module_id |-> w, command_id |-> w,
         resp_length |-> w, resp_data |-> -1]

(* What a valkey_parse_command call starts from: the query buffer, qb_pos, *)
(* the number of unread bytes, the first of them (-1 when there is none),  *)
(* whether a '\r' is among them, and the parse state.                      *)
Before(c) ==
    [querybuf |-> c.querybuf,
     qb_pos |-> c.qb_pos,
     unread |-> sdslen(c.querybuf) - c.qb_pos,
     first |-> IF c.qb_pos < sdslen(c.querybuf) THEN Byte(c.querybuf, c.qb_pos) ELSE -1,
     has_cr |-> memchr(c.querybuf, c.qb_pos, 13) # -1,
     read_flags |-> c.read_flags,
     multibulklen |-> c.multibulklen,
     bulklen |-> c.bulklen,
     reqtype |-> c.reqtype,
     argc |-> c.argc]

(* The RESP parser's variables in a run that does not use it. *)
NoClient ==
    /\ client = valkey_client_init(<<>>, 0)
    /\ client_before = Before(valkey_client_init(<<>>, 0))
    /\ wellformed = <<>>

(* const char *resp_workload_file = NULL: no file was named *)
NoFile == [given |-> FALSE, bytes |-> <<>>]

(* workload_t *wl = NULL *)
NoWorkload == [data |-> <<>>, size |-> 0, current_pos |-> 0, ptr |-> 0]

(* The benchmark's variables in a run that is not a benchmark. *)
NoBenchmark ==
    /\ metrics = benchmark_metrics_init
    /\ last_store = -1
    /\ config = [iterations |-> 0, sample_latency |-> 0, bench_resp |-> 0, bench_respb |-> 0,
                 workload_type |-> WORKLOAD_FILE, resp_workload_file |-> NoFile,
                 respb_workload_file |-> NoFile]
    /\ wl = NoWorkload
    /\ wlb = NoWorkload
    /\ gen = [target_size |-> 0, cmd_count |-> 0, ends |-> <<>>]
    /\ bench = [iter |-> 0, calls |-> 0, ret |-> -1]
    /\ heap = [objs |-> <<>>, argv |-> <<>>]
    /\ run_ret = -1
    /\ out = <<>>

(* A byte of an array nothing was stored in yet. *)
Unwritten == 204

(* A caller that parses a buffer it received: the parser is initialised    *)
(* over the input, no command is serialized.                               *)
Init ==
    \E in \in Inputs :
        /\ parser = respb_parser_init(in.bytes, Len(in.bytes))
        /\ cmd = StaleCmd(in.stale)
        /\ twin = [cmd |-> StaleCmd(3 - in.stale), ret |-> 0, pos |-> 0]
        /\ ends = in.ends
        /\ stage = "parse"
        /\ src = MkCmd(0, 0, <<>>, 0, 0, <<>>)
        /\ wire = <<>>
        /\ wire_len = 0
        /\ out_n = 0
        /\ wr_max = 0
        /\ result = 0
        /\ calls = 0
        /\ pos_before = 0
        /\ rd_max = 0
        /\ rd_unchecked = FALSE
        /\ written = {}
        /\ NoClient
        /\ NoBenchmark

(* What one call leaves: r is the call's outcome, r2 the outcome of the    *)
(* same call made with the twin record.                                    *)
Parsed(r, r2) ==
    /\ parser' = r.parser
    /\ cmd' = r.cmd
    /\ result' = r.ret
    /\ rd_max' = Max(rd_max, r.rd_max)
    /\ rd_unchecked' = (rd_unchecked \/ r.rd_unchecked)
    /\ written' = r.written
    /\ twin' = [cmd |-> r2.cmd, ret |-> r2.ret, pos |-> r2.parser.pos]

(* One call respb_parse_command(&parser, &cmd). *)
ParseCommand ==
    /\ stage = "parse"
    /\ calls < MaxCalls
    /\ Parsed(respb_parse_command(parser, cmd), respb_parse_command(parser, twin.cmd))
    /\ calls' = calls + 1
    /\ pos_before' = parser.pos
    /\ UNCHANGED <<ends, stage, src, wire, wire_len, out_n, wr_max>>
    /\ UNCHANGED <<client, client_before, wellformed>>
    /\ UNCHANGED benchvars

Next == ParseCommand

Spec == Init /\ [][Next]_vars

(* A caller that serializes a command into an array of buf_len bytes and   *)
(* parses what was produced (the round trip of the tests).                 *)
InitRT ==
    \E in \in SerializerInputs :
        /\ src = in.cmd
        /\ wire = [j \in 1..in.buf_len |-> Unwritten]
        /\ wire_len = in.buf_len
        /\ stage = "serialize"
        /\ out_n = 0
        /\ wr_max = 0
        /\ parser = respb_parser_init(<<>>, 0)
        /\ cmd = StaleCmd(1)
        /\ twin = [cmd |-> StaleCmd(2), ret |-> 0, pos |-> 0]
        /\ ends = <<>>
        /\ result = 0
        /\ calls = 0
        /\ pos_before = 0
        /\ rd_max = 0
        /\ rd_unchecked = FALSE
        /\ written = {}
        /\ NoClient
        /\ NoBenchmark

(* size_t len = respb_serialize_command(buf, sizeof(buf), &cmd) *)
SerializeCommand ==
    /\ stage = "serialize"
    /\ LET w == respb_serialize_command(wire, wire_len, src)
       IN  /\ wire' = w.buf
           /\ out_n' = w.ret
           /\ wr_max' = w.wr_max
    /\ stage' = "init"
    /\ UNCHANGED <<parser, cmd, result, calls, pos_before, rd_max, rd_unchecked, written,
                   ends, src, wire_len, twin, client, client_before, wellformed>>
    /\ UNCHANGED benchvars

(* respb_parser_init(&parser, buf, len) over the len bytes produced. *)
ParserInit ==
    /\ stage = "init"
    /\ out_n > 0
    /\ parser' = respb_parser_init(SubSeq(wire, 1, out_n), out_n)
    /\ stage' = "parse"
    /\ UNCHANGED <<cmd, result, calls, pos_before, rd_max, rd_unchecked, written, ends,
                   src, wire, wire_len, out_n, wr_max, twin, client, client_before, wellformed>>
    /\ UNCHANGED benchvars

NextRT == SerializeCommand \/ ParserInit \/ ParseCommand

SpecRT == InitRT /\ [][NextRT]_vars

(* A caller of the RESP parser: the client is initialised over the whole   *)
(* input and the caller sets read_flags (the server's flags for a client   *)
(* that has not authenticated, or for a replication link), then parses     *)
(* command after command until a call does not return 1.                   *)
InitResp ==
    \E in \in RespInputs, fl \in {0, READ_FLAGS_AUTH_REQUIRED, READ_FLAGS_REPLICATED} :
        /\ client = [valkey_client_init(in.bytes, Len(in.bytes)) EXCEPT !.read_flags = fl]
        /\ client_before = Before(valkey_client_init(in.bytes, Len(in.bytes)))
        /\ wellformed = in.cmds
        /\ stage = "resp_call"
        /\ result = 0
        /\ calls = 0
        /\ parser = respb_parser_init(<<>>, 0)
        /\ cmd = StaleCmd(1)
        /\ twin = [cmd |-> StaleCmd(2), ret |-> 0, pos |-> 0]
        /\ ends = <<>>
        /\ src = MkCmd(0, 0, <<>>, 0, 0, <<>>)
        /\ wire = <<>>
        /\ wire_len = 0
        /\ out_n = 0
        /\ wr_max = 0
        /\ pos_before = 0
        /\ rd_max = 0
        /\ rd_unchecked = FALSE
        /\ written = {}
        /\ NoBenchmark

(* The caller's call of valkey_parse_command: the call returns, and the    *)
(* caller goes on at stage to, or an assertion fails inside it and the     *)
(* process ends there.                                                     *)
RespCall(to) ==
    /\ IF Aborts(client)
       THEN /\ client' = client
            /\ result' = result
            /\ stage' = "resp_abort"
       ELSE /\ LET r == valkey_parse_command(client)
               IN  /\ client' = r.c
                   /\ result' = r.ret
            /\ stage' = to
    /\ client_before' = Before(client)
    /\ calls' = calls + 1
    /\ UNCHANGED <<parser, cmd, twin, pos_before, rd_max, rd_unchecked, written, ends,
                   src, wire, wire_len, out_n, wr_max, wellformed>>
    /\ UNCHANGED benchvars

(* int result = valkey_parse_command(&client); the first call is made      *)
(* whatever the buffer holds (the tests), the later ones while             *)
(* client.qb_pos < client.querybuf_peak (the benchmark's loop).            *)
RespParseCommand ==
    /\ stage = "resp_call"
    /\ calls < MaxCalls
    /\ calls = 0 \/ client.qb_pos < client.querybuf_peak
    /\ RespCall("resp_check")

(* A caller that was told "incomplete" calls valkey_parse_command again    *)
(* with the client and the query buffer as the last call left them.        *)
RespCallAgain ==
    /\ stage \in {"resp_check", "resp_again"}
    /\ result = 0
    /\ calls < MaxCalls
    /\ RespCall("resp_again")

(* if (result == 1): the arguments are released and argc and argv_len_sum  *)
(* are cleared for the next command.                                       *)
RespNextCommand ==
    /\ stage \in {"resp_check", "resp_again"}
    /\ result = 1
    /\ client' = [client EXCEPT !.argc = 0, !.argv = <<>>, !.argv_len_sum = 0]
    /\ stage' = "resp_call"
    /\ UNCHANGED <<parser, cmd, twin, result, calls, pos_before, rd_max, rd_unchecked,
                   written, ends, src, wire, wire_len, out_n, wr_max, client_before,
                   wellformed>>
    /\ UNCHANGED benchvars

NextResp == RespParseCommand \/ RespCallAgain \/ RespNextCommand

SpecResp == InitResp /\ [][NextResp]_vars

(* The codec's variables in a run that does not use the RESPB codec. *)
NoCodec ==
    /\ parser = respb_parser_init(<<>>, 0)
    /\ cmd = StaleCmd(1)
    /\ twin = [cmd |-> StaleCmd(2), ret |-> 0, pos |-> 0]
    /\ ends = <<>>
    /\ src = MkCmd(0, 0, <<>>, 0, 0, <<>>)
    /\ wire = <<>>
    /\ wire_len = 0
    /\ out_n = 0
    /\ wr_max = 0
    /\ pos_before = 0
    /\ rd_max = 0
    /\ rd_unchecked = FALSE
    /\ written = {}

codecvars ==
    <<parser, cmd, twin, ends, src, wire, wire_len, out_n, wr_max, pos_before, rd_max,
      rd_unchecked, written>>

(* A user of the metrics functions: a run that has recorded the latencies  *)
(* of its first n commands since benchmark_metrics_init, and goes on with  *)
(* calls of benchmark_metrics_init and benchmark_record_latency and, at    *)
(* the end, benchmark_compute_percentiles.                                 *)
InitMetrics ==
    \E n \in RecordedSample :
        /\ metrics = RecordRun(benchmark_metrics_init, 1, n)
        /\ last_store = n - 1
        /\ stage = "metrics"
        /\ calls = 0
        /\ result = 0
        /\ config = [iterations |-> 0, sample_latency |-> 1, bench_resp |-> 0,
                     bench_respb |-> 0, workload_type |-> WORKLOAD_FILE,
                     resp_workload_file |-> NoFile, respb_workload_file |-> NoFile]
        /\ wl = NoWorkload
        /\ wlb = NoWorkload
        /\ gen = [target_size |-> 0, cmd_count |-> 0, ends |-> <<>>]
        /\ bench = [iter |-> 0, calls |-> 0, ret |-> -1]
        /\ heap = [objs |-> <<>>, argv |-> <<>>]
        /\ run_ret = -1
        /\ out = <<>>
        /\ NoClient
        /\ NoCodec

(* benchmark_metrics_init(metrics) *)
MetricsInit ==
    /\ stage \in {"metrics", "metrics_done"}
    /\ calls < MaxRecords
    /\ metrics' = benchmark_metrics_init
    /\ last_store' = -1
    /\ stage' = "metrics"
    /\ calls' = calls + 1
    /\ UNCHANGED <<result, config, wl, wlb, gen, bench, heap, run_ret>>
    /\ UNCHANGED <<client, client_before, wellformed, out>>
    /\ UNCHANGED codecvars

(* What a benchmark_record_latency call leaves: the store                  *)
(* latency_samples[latency_sample_count++] is the one it makes.            *)
Recorded(m) ==
    /\ metrics' = m
    /\ last_store' = IF m.latency_sample_count # metrics.latency_sample_count
                     THEN metrics.latency_sample_count ELSE -1

(* benchmark_record_latency(metrics, latency_ns) *)
RecordLatency ==
    /\ stage = "metrics"
    /\ calls < MaxRecords
    /\ \E latency_ns \in LatencySample :
           Recorded(benchmark_record_latency(metrics, latency_ns))
    /\ calls' = calls + 1
    /\ UNCHANGED <<stage, result, config, wl, wlb, gen, bench, heap, run_ret>>
    /\ UNCHANGED <<client, client_before, wellformed, out>>
    /\ UNCHANGED codecvars

(* benchmark_compute_percentiles(metrics) *)
ComputePercentiles ==
    /\ stage = "metrics"
    /\ metrics' = benchmark_compute_percentiles(metrics)
    /\ stage' = "metrics_done"
    /\ UNCHANGED <<last_store, calls, result, config, wl, wlb, gen, bench, heap, run_ret>>
    /\ UNCHANGED <<client, client_before, wellformed, out>>
    /\ UNCHANGED codecvars

NextMetrics == MetricsInit \/ RecordLatency \/ ComputePercentiles

SpecMetrics == InitMetrics /\ [][NextMetrics]_vars

(***************************************************************************)
(* run_benchmark (src/benchmark.c): the workloads are loaded or generated, *)
(* then benchmark_resp_parsing and benchmark_respb_parsing replay them.    *)
(* stage is where the run is.  The size of a synthetic workload is an      *)
(* input here (run_benchmark asks for 10 MiB).                             *)
(***************************************************************************)
MaxIterations == 2   \* config->iterations
MaxTarget == 400     \* largest target_size of the small commands
MaxLargeTarget == 3300

TargetsOf(type) ==
    IF type = WORKLOAD_LARGE_VALUES
    THEN {1, 1100, 1101, 1162, 2161, 2162, 2163, 2164, MaxLargeTarget}
    ELSE {1, 100, 101, 125, 126, 127, 200, 201, 284, 285, 286, MaxTarget}

(* The content of a workload file. *)
File(bytes) == [given |-> TRUE, bytes |-> bytes]

(* RESPB workload files: frames in a row, a frame cut short, an opcode     *)
(* that is not defined behind a frame, and an empty file.                  *)
RespbFiles ==
    {FrameGET, FrameGET \o FrameSET, FrameSET \o FrameGET \o FrameINCRBY,
     FrameGET \o SubSeq(FrameSET, 1, 7), FrameGET \o Header(48879, MuxSample),
     Header(48879, MuxSample) \o FrameGET, FrameZADD(1) \o FrameGET, <<>>}

(* A run: the configuration, the target size of a synthetic workload and   *)
(* the well-formed commands the RESP workload file begins with.            *)
BenchInputs ==
    \* a RESP workload file
    {[config |-> [iterations |-> n, sample_latency |-> sl, bench_resp |-> 1,
                  bench_respb |-> 0, workload_type |-> WORKLOAD_FILE,
                  resp_workload_file |-> File(in.bytes), respb_workload_file |-> NoFile],
      target_size |-> 0, cmds |-> in.cmds] :
        in \in RespInputs, n \in 1..MaxIterations, sl \in {0, 1}}
    \* a RESPB workload file, alone and with a RESP workload file
    \cup {[config |-> [iterations |-> n, sample_latency |-> sl, bench_resp |-> br,
                       bench_respb |-> 1, workload_type |-> WORKLOAD_FILE,
                       resp_workload_file |-> rf, respb_workload_file |-> File(bytes)],
           target_size |-> 0, cmds |-> <<>>] :
            bytes \in RespbFiles, n \in 1..MaxIterations, sl \in {0, 1}, br \in {0, 1},
            rf \in {NoFile, File(Multibulk(<<<<71, 69, 84>>, <<97>>>>)),
                    File(<<42, 49, 13, 10, 58>> \o CRLF)}}
    \* synthetic workloads
    \cup UNION {{[config |-> [iterations |-> n, sample_latency |-> 1, bench_resp |-> br,
                              bench_respb |-> bb, workload_type |-> type,
                              resp_workload_file |-> NoFile,
                              respb_workload_file |-> NoFile],
                  target_size |-> t, cmds |-> <<>>] :
                    t \in TargetsOf(type), n \in 1..MaxIterations,
                    br \in {0, 1}, bb \in {0, 1}} :
                 type \in {WORKLOAD_SMALL_KEYS, WORKLOAD_MEDIUM_KEYS,
                           WORKLOAD_LARGE_VALUES, WORKLOAD_MIXED}}

InitBench ==
    \E in \in BenchInputs :
        /\ config = in.config
        /\ gen = [target_size |-> in.target_size, cmd_count |-> 0, ends |-> <<>>]
        /\ wellformed = in.cmds
        /\ stage = "run_load"
        /\ wl = NoWorkload
        /\ wlb = NoWorkload
        /\ metrics = benchmark_metrics_init
        /\ last_store = -1
        /\ bench = [iter |-> 0, calls |-> 0, ret |-> -1]
        /\ heap = [objs |-> <<>>, argv |-> <<>>]
        /\ run_ret = -1
        /\ out = <<>>
        /\ result = 0
        /\ calls = 0
        /\ client = valkey_client_init(<<>>, 0)
        /\ client_before = Before(valkey_client_init(<<>>, 0))
        /\ NoCodec

(* run_benchmark, if (config->workload_type == WORKLOAD_FILE): the files   *)
(* named are loaded; a file that cannot be loaded ends the run.            *)
Loaded(w, wb) ==
    /\ wl' = w
    /\ wlb' = wb
    /\ IF (config.resp_workload_file.given /\ w.ptr = 0)
             \/ (config.respb_workload_file.given /\ wb.ptr = 0)
       THEN run_ret' = 0 /\ stage' = "run_done"
       ELSE run_ret' = run_ret /\ stage' = "run_resp"

LoadWorkloads ==
    /\ stage = "run_load"
    /\ config.workload_type = WORKLOAD_FILE
    /\ Loaded(IF config.resp_workload_file.given
              THEN workload_load(config.resp_workload_file.bytes, 1) ELSE NoWorkload,
              IF config.respb_workload_file.given
              THEN workload_load(config.respb_workload_file.bytes, 2) ELSE NoWorkload)
    /\ UNCHANGED <<metrics, last_store, config, gen, bench, heap, result, calls>>
    /\ UNCHANGED <<client, client_before, wellformed, out>>
    /\ UNCHANGED codecvars

(* workload_generate_synthetic(target_size, type) up to its loop *)
GenerateBegin ==
    /\ stage = "run_load"
    /\ config.workload_type # WORKLOAD_FILE
    /\ wl' = NewWorkload(1)
    /\ stage' = "generate"
    /\ UNCHANGED <<metrics, last_store, config, wlb, gen, bench, heap, run_ret, result, calls>>
    /\ UNCHANGED <<client, client_before, wellformed, out>>
    /\ UNCHANGED codecvars

(* One pass of the loop, text being what it is about to append: the pass   *)
(* leaves the loop when the text does not fit, and appends it otherwise    *)
(* (cmd_count is a variable of the mixed workload only).                   *)
Generated(text) ==
    IF wl.size + Len(text) > gen.target_size
    THEN /\ wlb' = wl
         /\ stage' = "run_resp"
         /\ UNCHANGED <<wl, gen>>
    ELSE /\ wl' = AppendText(wl, text)
         /\ gen' = [gen EXCEPT !.cmd_count = IF config.workload_type = WORKLOAD_MIXED
                                             THEN @ + 1 ELSE @,
                               !.ends = Append(@, wl.size + Len(text))]
         /\ UNCHANGED <<wlb, stage>>

(* while (wl->size + <slack> < target_size) { ... } *)
GenerateCommand ==
    /\ stage = "generate"
    /\ wl.size + LoopSlack(config.workload_type) < gen.target_size
    /\ Generated(CommandText(config.workload_type, wl.size, gen.cmd_count))
    /\ UNCHANGED <<metrics, last_store, config, bench, heap, run_ret, result, calls>>
    /\ UNCHANGED <<client, client_before, wellformed, out>>
    /\ UNCHANGED codecvars

(* The loop ends; return wl; respb_workload = resp_workload. *)
GenerateReturn ==
    /\ stage = "generate"
    /\ ~(wl.size + LoopSlack(config.workload_type) < gen.target_size)
    /\ wlb' = wl
    /\ stage' = "run_resp"
    /\ UNCHANGED <<metrics, last_store, config, wl, gen, bench, heap, run_ret, result, calls>>
    /\ UNCHANGED <<client, client_before, wellformed, out>>
    /\ UNCHANGED codecvars

(* if (resp_workload && config->bench_resp): benchmark_resp_parsing up to  *)
(* its loop.                                                               *)
BenchRespBegin ==
    /\ stage = "run_resp"
    /\ wl.ptr # 0 /\ config.bench_resp = 1
    /\ metrics' = benchmark_metrics_init
    /\ last_store' = -1
    /\ client' = valkey_client_init(wl.data, wl.size)
    /\ bench' = [iter |-> 0, calls |-> 0, ret |-> -1]
    /\ stage' = "resp_iter"
    /\ UNCHANGED <<config, wl, wlb, gen, heap, run_ret, result, calls>>
    /\ UNCHANGED <<client_before, wellformed, out>>
    /\ UNCHANGED codecvars

(* The RESP benchmark is not run. *)
RunSkipResp ==
    /\ stage = "run_resp"
    /\ ~(wl.ptr # 0 /\ config.bench_resp = 1)
    /\ stage' = "run_respb"
    /\ UNCHANGED <<metrics, last_store, config, wl, wlb, gen, bench, heap, run_ret,
                   result, calls>>
    /\ UNCHANGED <<client, client_before, wellformed, out>>
    /\ UNCHANGED codecvars

(* for (int iter = 0; iter < iterations; iter++) { reset the client; free  *)
(* old argv if any ...                                                     *)
BenchRespIteration ==
    /\ stage = "resp_iter"
    /\ bench.iter < config.iterations
    /\ client' = [client EXCEPT !.qb_pos = 0, !.multibulklen = 0, !.bulklen = -1,
                                !.reqtype = 0, !.read_flags = 0, !.argc = 0,
                                !.argv = <<>>, !.argv_len = 0, !.argv_len_sum = 0]
    /\ heap' = ReleaseArgs(heap)
    /\ stage' = "resp_loop"
    /\ UNCHANGED <<metrics, last_store, config, wl, wlb, gen, bench, run_ret, result, calls>>
    /\ UNCHANGED <<client_before, wellformed, out>>
    /\ UNCHANGED codecvars

(* The metrics after the sampling of a parse call. *)
Sampled(m) ==
    IF config.sample_latency = 1 THEN SampleCommand(m, bench.calls + 1) ELSE m

(* A handling of the parse result that takes an error for an incomplete    *)
(* command.                                                                *)
RespResult_ErrorBreaks(r, h, m) ==
    /\ result' = r.ret
    /\ bench' = [bench EXCEPT !.calls = @ + 1,
                              !.iter = IF r.ret # 1 THEN @ + 1 ELSE @]
    /\ last_store' = IF m.latency_sample_count # metrics.latency_sample_count
                     THEN metrics.latency_sample_count ELSE -1
    /\ IF r.ret = 1
       THEN /\ metrics' = [m EXCEPT !.commands_processed = @ + 1,
                                    !.bytes_processed = @ + (r.c.qb_pos - client.qb_pos)]
            /\ heap' = ReleaseArgs(h)
            /\ client' = [r.c EXCEPT !.argc = 0, !.argv = <<>>, !.argv_len_sum = 0]
            /\ stage' = "resp_loop"
       ELSE /\ metrics' = m
            /\ heap' = h
            /\ client' = r.c
            /\ stage' = "resp_iter"

(* The loop body after the call: r is what valkey_parse_command returned   *)
(* and left, h the heap with the objects it created, m the metrics after   *)
(* the sampling.  result == 1: the command is counted, its arguments are   *)
(* released and argc is cleared; result == 0: break; otherwise             *)
(* valkey_client_free and return 0.  bytes_processed is the sum of the     *)
(* differences qb_pos - start_pos (the C value is that sum modulo 2^64).   *)
RespResult(r, h, m) ==
    /\ result' = r.ret
    /\ bench' = [bench EXCEPT !.calls = @ + 1,
                              !.iter = IF r.ret = 0 THEN @ + 1 ELSE @,
                              !.ret = IF r.ret = -1 THEN 0 ELSE @]
    /\ last_store' = IF m.latency_sample_count # metrics.latency_sample_count
                     THEN metrics.latency_sample_count ELSE -1
    /\ IF r.ret = 1
       THEN /\ metrics' = [m EXCEPT !.commands_processed = @ + 1,
                                    !.bytes_processed = @ + (r.c.qb_pos - client.qb_pos)]
            /\ heap' = ReleaseArgs(h)
            /\ client' = [r.c EXCEPT !.argc = 0, !.argv = <<>>, !.argv_len_sum = 0]
            /\ stage' = "resp_loop"
       ELSE IF r.ret = 0
       THEN /\ metrics' = m
            /\ heap' = h
            /\ client' = r.c
            /\ stage' = "resp_iter"
       ELSE /\ metrics' = m
            /\ heap' = valkey_client_free(h)
            /\ client' = [r.c EXCEPT !.querybuf = <<>>]
            /\ stage' = "resp_returned"

(* The objects a call created: one for every entry argc moved over. *)
RespCalled(r) ==
    RespResult(r, CreateObjects(heap, r.c.argc - client.argc), Sampled(metrics))

(* while (client.qb_pos < client.querybuf_peak) { ... }: one pass *)
BenchRespCommand ==
    /\ stage = "resp_loop"
    /\ client.qb_pos < client.querybuf_peak
    /\ RespCalled(valkey_parse_command(client))
    /\ client_before' = Before(client)
    /\ UNCHANGED <<config, wl, wlb, gen, run_ret, calls, wellformed, out>>
    /\ UNCHANGED codecvars

(* The inner loop ends with the buffer read to its end. *)
BenchRespLoopEnd ==
    /\ stage = "resp_loop"
    /\ ~(client.qb_pos < client.querybuf_peak)
    /\ bench' = [bench EXCEPT !.iter = @ + 1]
    /\ stage' = "resp_iter"
    /\ UNCHANGED <<metrics, last_store, config, wl, wlb, gen, heap, run_ret, result, calls>>
    /\ UNCHANGED <<client, client_before, wellformed, out>>
    /\ UNCHANGED codecvars

(* After the last iteration: benchmark_compute_percentiles(metrics);       *)
(* valkey_client_free(&client); return 1.                                  *)
BenchRespReturn ==
    /\ stage = "resp_iter"
    /\ ~(bench.iter < config.iterations)
    /\ metrics' = benchmark_compute_percentiles(metrics)
    /\ heap' = valkey_client_free(heap)
    /\ client' = [client EXCEPT !.querybuf = <<>>]
    /\ bench' = [bench EXCEPT !.ret = 1]
    /\ stage' = "resp_returned"
    /\ UNCHANGED <<last_store, config, wl, wlb, gen, run_ret, result, calls>>
    /\ UNCHANGED <<client_before, wellformed, out>>
    /\ UNCHANGED codecvars

(* run_benchmark, if (!benchmark_resp_parsing(...)) { ... return 0; } *)
RunAfterResp ==
    /\ stage = "resp_returned"
    /\ IF bench.ret = 0
       THEN run_ret' = 0 /\ stage' = "run_done" /\ out' = out
       ELSE run_ret' = run_ret /\ stage' = "run_respb" /\ out' = Append(out, "RESP")
    /\ UNCHANGED <<metrics, last_store, config, wl, wlb, gen, bench, heap, result, calls>>
    /\ UNCHANGED <<client, client_before, wellformed>>
    /\ UNCHANGED codecvars

(* if (config->bench_resp && config->bench_respb && respb_workload !=      *)
(* resp_workload) benchmark_print_comparison(...): what has been printed   *)
(* after it, o being what was printed before.                              *)
Compared(o) ==
    IF config.bench_resp = 1 /\ config.bench_respb = 1 /\ wlb.ptr # wl.ptr
    THEN Append(o, "comparison") ELSE o

(* if (respb_workload && config->bench_respb && respb_workload !=          *)
(* resp_workload): benchmark_respb_parsing up to its loop.                 *)
RunsRespb == wlb.ptr # 0 /\ config.bench_respb = 1 /\ wlb.ptr # wl.ptr

BenchRespbBegin ==
    /\ stage = "run_respb"
    /\ RunsRespb
    /\ metrics' = benchmark_metrics_init
    /\ last_store' = -1
    /\ bench' = [iter |-> 0, calls |-> 0, ret |-> -1]
    /\ stage' = "respb_iter"
    /\ UNCHANGED <<config, wl, wlb, gen, heap, run_ret, result, calls>>
    /\ UNCHANGED <<client, client_before, wellformed, out>>
    /\ UNCHANGED codecvars

(* The RESPB benchmark is not run: the workloads are freed, return 1. *)
RunReturn ==
    /\ stage = "run_respb"
    /\ ~RunsRespb
    /\ out' = Compared(out)
    /\ run_ret' = 1
    /\ stage' = "run_done"
    /\ UNCHANGED <<metrics, last_store, config, wl, wlb, gen, bench, heap, result, calls>>
    /\ UNCHANGED <<client, client_before, wellformed>>
    /\ UNCHANGED codecvars

(* for (int iter = 0; iter < iterations; iter++) { workload_reset(wl); ... *)
BenchRespbIteration ==
    /\ stage = "respb_iter"
    /\ bench.iter < config.iterations
    /\ wlb' = workload_reset(wlb)
    /\ stage' = "respb_loop"
    /\ UNCHANGED <<metrics, last_store, config, wl, gen, bench, heap, run_ret, result, calls>>
    /\ UNCHANGED <<client, client_before, wellformed, out>>
    /\ UNCHANGED codecvars

(* The loop body after the call: r is what respb_parse_command returned    *)
(* and left, m the metrics after the sampling.  result == 1: the command   *)
(* is counted and current_pos moves by parser.pos; result == 0: break;     *)
(* otherwise return 0.                                                     *)
RespbResult(r, m) ==
    /\ result' = r.ret
    /\ parser' = r.parser
    /\ cmd' = r.cmd
    /\ bench' = [bench EXCEPT !.calls = @ + 1,
                              !.iter = IF r.ret = 0 THEN @ + 1 ELSE @,
                              !.ret = IF r.ret = -1 THEN 0 ELSE @]
    /\ last_store' = IF m.latency_sample_count # metrics.latency_sample_count
                     THEN metrics.latency_sample_count ELSE -1
    /\ IF r.ret = 1
       THEN /\ metrics' = [m EXCEPT !.commands_processed = @ + 1,
                                    !.bytes_processed = @ + r.parser.pos]
            /\ wlb' = [wlb EXCEPT !.current_pos = @ + r.parser.pos]
            /\ stage' = "respb_loop"
       ELSE /\ metrics' = m
            /\ wlb' = wlb
            /\ stage' = IF r.ret = 0 THEN "respb_iter" ELSE "respb_returned"

(* while (workload_has_more(wl)) { respb_parser_init over the rest of the  *)
(* workload; respb_parse_command(&parser, &cmd); ... }: one pass           *)
BenchRespbCommand ==
    /\ stage = "respb_loop"
    /\ workload_has_more(wlb)
    /\ RespbResult(respb_parse_command(
                       respb_parser_init(SubSeq(wlb.data, wlb.current_pos + 1, wlb.size),
                                         workload_remaining(wlb)), cmd),
                   Sampled(metrics))
    /\ pos_before' = 0
    /\ UNCHANGED <<config, wl, gen, heap, run_ret, calls>>
    /\ UNCHANGED <<client, client_before, wellformed, out>>
    /\ UNCHANGED <<twin, ends, src, wire, wire_len, out_n, wr_max, rd_max, rd_unchecked,
                   written>>

(* The inner loop ends with the workload read to its end. *)
BenchRespbLoopEnd ==
    /\ stage = "respb_loop"
    /\ ~workload_has_more(wlb)
    /\ bench' = [bench EXCEPT !.iter = @ + 1]
    /\ stage' = "respb_iter"
    /\ UNCHANGED <<metrics, last_store, config, wl, wlb, gen, heap, run_ret, result, calls>>
    /\ UNCHANGED <<client, client_before, wellformed, out>>
    /\ UNCHANGED codecvars

(* After the last iteration: benchmark_compute_percentiles(metrics);       *)
(* return 1.                                                               *)
BenchRespbReturn ==
    /\ stage = "respb_iter"
    /\ ~(bench.iter < config.iterations)
    /\ metrics' = benchmark_compute_percentiles(metrics)
    /\ bench' = [bench EXCEPT !.ret = 1]
    /\ stage' = "respb_returned"
    /\ UNCHANGED <<last_store, config, wl, wlb, gen, heap, run_ret, result, calls>>
    /\ UNCHANGED <<client, client_before, wellformed, out>>
    /\ UNCHANGED codecvars

(* run_benchmark, if (!benchmark_respb_parsing(...)) { ... return 0; },    *)
(* and otherwise the comparison, the cleanup and return 1.                 *)
RunAfterRespb ==
    /\ stage = "respb_returned"
    /\ run_ret' = IF bench.ret = 0 THEN 0 ELSE 1
    /\ out' = IF bench.ret = 0 THEN out ELSE Compared(Append(out, "RESPB"))
    /\ stage' = "run_done"
    /\ UNCHANGED <<metrics, last_store, config, wl, wlb, gen, bench, heap, result, calls>>
    /\ UNCHANGED <<client, client_before, wellformed>>
    /\ UNCHANGED codecvars

NextBench ==
    \/ LoadWorkloads \/ GenerateBegin \/ GenerateCommand \/ GenerateReturn
    \/ BenchRespBegin \/ RunSkipResp \/ BenchRespIteration \/ BenchRespCommand
    \/ BenchRespLoopEnd \/ BenchRespReturn \/ RunAfterResp
    \/ BenchRespbBegin \/ RunReturn \/ BenchRespbIteration \/ BenchRespbCommand
    \/ BenchRespbLoopEnd \/ BenchRespbReturn \/ RunAfterRespb

SpecBench == InitBench /\ [][NextBench]_vars

(***************************************************************************)
(* Properties                                                              *)
(***************************************************************************)
TypeOK ==
    /\ parser.pos \in Nat
    /\ result \in {-1, 0, 1}
    /\ calls \in 0..(MaxCalls + MaxRecords)
    /\ stage \in {"serialize", "init", "parse", "resp_call", "resp_check",
                 "resp_again", "resp_abort",
                 "metrics", "metrics_done", "run_load", "generate", "run_resp",
                 "resp_iter", "resp_loop", "resp_returned", "run_respb", "respb_iter",
                 "respb_loop", "respb_returned", "run_done"}
    /\ out_n \in Nat

(* C1: whenever a call returns incomplete (0), parser.pos after the call   *)
(* equals parser.pos before it.                                            *)
C1_IncompleteLeavesPos ==
    (calls > 0 /\ result = 0) => parser.pos = pos_before

(* A GET frame cut after its 2-byte key length: the call returns           *)
(* incomplete with pos past the header and the length.                     *)
C1_PosMovedOnIncomplete ==
    /\ calls = 1
    /\ parser.buffer = SubSeq(FrameGET, 1, 6)
    /\ result = 0
    /\ pos_before = 0
    /\ parser.pos = 6

(* C2: on a concatenation of well-formed frames of the catalogue, the k-th *)
(* call returns complete with pos at the end of the k-th frame, and no     *)
(* call after the last frame returns complete.                             *)
C2_OneCompletePerFrame ==
    (calls > 0 /\ ends # <<>> /\ SubSeq(parser.buffer, 1, ends[1]) \in SmallFrames) =>
        IF calls <= Len(ends)
        THEN result = 1 /\ parser.pos = ends[calls]
        ELSE result # 1

(* A ZADD frame with one [score, member] element followed by a GET frame:  *)
(* the first call returns complete with pos before the element.            *)
C2_ZaddStopsBeforeElements ==
    /\ calls = 1
    /\ parser.buffer = FrameZADD(1) \o FrameGET
    /\ result = 1
    /\ parser.pos = 10
    /\ ends[1] = 21

(* C3: every call returns complete, incomplete or error; no byte at an     *)
(* index >= buffer_len is read, and every read of n bytes at pos follows a *)
(* check that pos + n <= buffer_len.                                       *)
C3_ReadsAreChecked ==
    /\ result \in {-1, 0, 1}
    /\ rd_max <= parser.buffer_len
    /\ ~rd_unchecked

(* An incomplete call that read up to the last byte of the buffer. *)
C3_ReadToTheEnd ==
    /\ calls = 1
    /\ result = 0
    /\ parser.buffer_len > 4
    /\ rd_max = parser.buffer_len

(* C4: after a complete call, every args[i] with i < argc was assigned by  *)
(* this call and lies inside the buffer.                                   *)
C4_ArgsSetAndInside ==
    (calls > 0 /\ result = 1) =>
        \A j \in 0..(cmd.argc - 1) :
            /\ j \in written
            /\ cmd.args[j].data >= 0
            /\ cmd.args[j].data + cmd.args[j].len <= parser.buffer_len

(* HSET declaring 31 pairs: argc is 64, args[63] is not assigned. *)
C4_HsetCountsUnsetArg ==
    /\ calls = 1
    /\ result = 1
    /\ cmd.opcode = RESPB_OP_HSET
    /\ parser.buffer = FrameHSET(RESPB_OP_HSET, 31, <<>>, <<>>)
    /\ cmd.argc = 64
    /\ 63 \notin written

(* C5: after a complete call, argc <= RESPB_MAX_ARGS. *)
C5_ArgcAtMostMax ==
    (calls > 0 /\ result = 1) => cmd.argc \in 0..RESPB_MAX_ARGS

(* EVAL declaring 65535 keys: complete, argc is RESPB_MAX_ARGS. *)
C5_EvalAtTheCap ==
    /\ calls = 1
    /\ result = 1
    /\ cmd.opcode = RESPB_OP_EVAL
    /\ read_u16_be(parser.buffer, 8) = 65535
    /\ cmd.argc = RESPB_MAX_ARGS

(* C6: a well-formed key-list frame (MGET, DEL, EXISTS, UNLINK) declaring  *)
(* more than RESPB_MAX_ARGS keys, or MSET frame declaring more than        *)
(* RESPB_MAX_ARGS / 2 pairs, is consumed to its end while argc is          *)
(* RESPB_MAX_ARGS.                                                         *)
C6_OverCapConsumesAll ==
    LET count == read_u16_be(parser.buffer, 4)
        over ==
            \/ /\ cmd.opcode \in {RESPB_OP_MGET, RESPB_OP_DEL, RESPB_OP_EXISTS, RESPB_OP_UNLINK}
               /\ count > RESPB_MAX_ARGS
            \/ /\ cmd.opcode = RESPB_OP_MSET
               /\ count > RESPB_MAX_ARGS \div 2
    IN  (calls = 1 /\ result = 1 /\ ends # <<>> /\ over) =>
            (parser.pos = ends[1] /\ cmd.argc = RESPB_MAX_ARGS)

(* MGET declaring 65 empty keys: complete with pos before the 65th key. *)
C6_MgetLeavesLastKey ==
    /\ calls = 1
    /\ result = 1
    /\ parser.buffer = FrameKeys(RESPB_OP_MGET, 65, <<>>)
    /\ cmd.argc = RESPB_MAX_ARGS
    /\ parser.pos = ends[1] - 2

(* C7: with at least 4 bytes at pos, a call returns error (-1) exactly     *)
(* when the opcode is not a request opcode of respb.h.                     *)
C7_ErrorIffUnknownOpcode ==
    (calls > 0 /\ pos_before + 4 <= parser.buffer_len) =>
        (result = -1 <=> read_u16_be(parser.buffer, pos_before) \notin RequestOpcodes)

(* Opcode 0xBEEF and its header only: error. *)
C7_BeefIsError ==
    /\ calls = 1
    /\ parser.buffer_len = 4
    /\ cmd.opcode = 48879
    /\ result = -1

(* C8: with fewer than 4 bytes between pos and buffer_len a call returns   *)
(* incomplete (0) and leaves pos unchanged.                                *)
C8_ShortHeaderIncomplete ==
    (calls > 0 /\ parser.buffer_len - pos_before < 4) =>
        (result = 0 /\ parser.pos = pos_before)

(* A 2-byte buffer: incomplete, pos still 0. *)
C8_TwoBytes ==
    /\ calls = 1
    /\ parser.buffer_len = 2
    /\ result = 0
    /\ parser.pos = 0

(* C9: after a complete call, pos grew, by raw_payload_len + 4 for an      *)
(* ordinary opcode and by raw_payload_len + 8 for a module or a RESP       *)
(* passthrough frame.                                                      *)
C9_CursorDelta ==
    (calls > 0 /\ result = 1) =>
        /\ parser.pos > pos_before
        /\ parser.pos - pos_before = cmd.raw_payload_len +
               (IF cmd.opcode \in {RESPB_OP_MODULE, RESPB_OP_RESP_PASSTHROUGH} THEN 8 ELSE 4)

(* A JSON.SET module frame: complete, raw_payload_len counts the 4-byte    *)
(* subcommand, so pos grew by raw_payload_len + 4.                         *)
C9_ModulePayloadHoldsSubcommand ==
    /\ calls = 1
    /\ result = 1
    /\ parser.buffer = FrameJSONSET
    /\ cmd.raw_payload = 4
    /\ parser.pos = Len(FrameJSONSET)
    /\ parser.pos - pos_before = cmd.raw_payload_len + 4

(* The bytes of the parsed args[j]: the slice of the buffer it points to. *)
ArgBytes(j) ==
    SubSeq(parser.buffer, cmd.args[j].data + 1, cmd.args[j].data + cmd.args[j].len)

(* C10: when the serializer returns n > 0 for a command of at most         *)
(* RESPB_MAX_ARGS arguments, parsing the n bytes returns complete with the *)
(* command's opcode, mux_id, argc and argument bytes.                      *)
C10_RoundTrip ==
    (stage = "parse" /\ calls = 1 /\ out_n > 0 /\ src.argc <= RESPB_MAX_ARGS) =>
        /\ result = 1
        /\ cmd.opcode = src.opcode
        /\ cmd.mux_id = src.mux_id
        /\ cmd.argc = src.argc
        /\ \A j \in 0..(src.argc - 1) :
               /\ cmd.args[j].data >= 0
               /\ ArgBytes(j) = src.args[j].data

(* STRLEN with the one argument "ab": the serializer emits a count and the *)
(* string, the parser returns complete with the 1-byte key 0x00.           *)
C10_StrlenComesBackChanged ==
    /\ stage = "parse"
    /\ calls = 1
    /\ src.opcode = RESPB_OP_STRLEN
    /\ src.argc = 1
    /\ src.args[0].data = <<97, 98>>
    /\ out_n = 10
    /\ result = 1
    /\ cmd.argc = 1
    /\ ArgBytes(0) = <<0>>

(* C11: the serializer stores no byte at an index >= buf_len; what it      *)
(* returns is at most buf_len, and the array past the last byte stored is  *)
(* untouched (a field that does not fit is not written).                   *)
C11_WritesInsideBuffer ==
    /\ wr_max <= wire_len
    /\ out_n <= wire_len
    /\ \A j \in 1..Len(wire) : j > wr_max => wire[j] = Unwritten

(* MGET of "ab", "ab" into 12 bytes: header, count and the first key are   *)
(* written (10 bytes), the second key does not fit, 0 is returned.         *)
C11_SecondKeyDoesNotFit ==
    /\ stage = "init"
    /\ src.opcode = RESPB_OP_MGET
    /\ src.argc = 2
    /\ wire_len = 12
    /\ out_n = 0
    /\ wr_max = 10

(* C12: a nonzero return is at least 4 (8 for module and passthrough       *)
(* frames), and a 0 return happens only when buf_len is smaller than the   *)
(* size of the command's frame (what the serializer returns for it given   *)
(* room).                                                                  *)
C12_ZeroOnlyWhenTooSmall ==
    stage # "serialize" =>
        /\ out_n > 0 =>
               out_n >= (IF src.opcode \in {RESPB_OP_MODULE, RESPB_OP_RESP_PASSTHROUGH}
                         THEN 8 ELSE 4)
        /\ out_n = 0 =>
               wire_len < respb_serialize_command([j \in 1..BufBig |-> Unwritten],
                                                  BufBig, src).ret

(* GET with argc = 0 into a 300-byte array: 0 is returned. *)
C12_GetWithoutKeyReturnsZero ==
    /\ stage = "init"
    /\ src.opcode = RESPB_OP_GET
    /\ src.argc = 0
    /\ wire_len = BufBig
    /\ out_n = 0

(* The bytes from the start of the last call's frame to the end of the     *)
(* buffer, and the opcode found there.                                     *)
Room == parser.buffer_len - pos_before
OpcodeAt == read_u16_be(parser.buffer, pos_before)

(* C13: a passthrough frame (opcode 0xFFFF) whose length field is L and    *)
(* that has at least L bytes after it is complete with resp_length = L,    *)
(* resp_data 8 bytes after the frame's start, argc = 0 and pos advanced by *)
(* 8 + L; with fewer than L bytes after the length the call is incomplete. *)
C13_Passthrough ==
    (calls > 0 /\ Room >= 8 /\ OpcodeAt = RESPB_OP_RESP_PASSTHROUGH) =>
        LET L == read_u32_be(parser.buffer, pos_before + 4)
        IN  IF Room >= 8 + L
            THEN /\ result = 1
                 /\ cmd.resp_length = L
                 /\ cmd.resp_data = pos_before + 8
                 /\ cmd.argc = 0
                 /\ parser.pos = pos_before + 8 + L
            ELSE result = 0

(* A passthrough frame of 258 bytes of RESP data, complete. *)
C13_LongPassthroughComplete ==
    /\ calls = 1
    /\ OpcodeAt = RESPB_OP_RESP_PASSTHROUGH
    /\ result = 1
    /\ cmd.resp_length = RespLong
    /\ parser.pos = 8 + RespLong

(* The module and command pairs with a payload shape of their own. *)
DedicatedModuleCommand(mid, cid) ==
    \/ mid = RESPB_MODULE_JSON /\ cid \in {0, 1}
    \/ mid = RESPB_MODULE_BF /\ cid \in {0, 2}
    \/ mid = RESPB_MODULE_FT /\ cid = 1

(* C14: for a module frame (opcode 0xF000) module_id is the high and       *)
(* command_id the low 16 bits of the subcommand; for every pair without a  *)
(* shape of its own the call reads exactly one 2-byte-length string: it is *)
(* complete iff the string is, with argc = 1, args[0] the string and pos   *)
(* behind it.                                                              *)
C14_ModuleIdsAndGenericShape ==
    (calls > 0 /\ Room >= 8 /\ OpcodeAt = RESPB_OP_MODULE) =>
        LET sub == read_u32_be(parser.buffer, pos_before + 4)
            mid == sub \div 65536
            cid == sub % 65536
            len == read_u16_be(parser.buffer, pos_before + 8)
            whole == Room >= 10 /\ Room >= 10 + len
        IN  /\ cmd.module_subcommand = sub
            /\ cmd.module_id = mid
            /\ cmd.command_id = cid
            /\ ~DedicatedModuleCommand(mid, cid) =>
                   /\ (result = 1) = whole
                   /\ whole =>
                        /\ cmd.argc = 1
                        /\ written = {0}
                        /\ cmd.args[0] = [data |-> pos_before + 10, len |-> len]
                        /\ parser.pos = pos_before + 10 + len

(* A frame of module 258, command 65535, parsed as one string. *)
C14_UnknownModuleOneString ==
    /\ calls = 1
    /\ OpcodeAt = RESPB_OP_MODULE
    /\ result = 1
    /\ cmd.module_id = 258
    /\ cmd.command_id = 65535
    /\ cmd.argc = 1
    /\ cmd.args[0].len = 2

RECURSIVE KeyOffset(_, _, _)
(* The offset of the i-th length prefix of a run of 2-byte-length strings  *)
(* that starts at off in buf; -1 when one of the first i strings is cut    *)
(* by the end of buf.                                                      *)
KeyOffset(buf, off, i) ==
    IF i = 0 THEN off
    ELSE LET p == KeyOffset(buf, off, i - 1)
         IN  IF p < 0 \/ p + 2 > Len(buf) THEN -1
             ELSE IF p + 2 + read_u16_be(buf, p) > Len(buf) THEN -1
             ELSE p + 2 + read_u16_be(buf, p)

(* C15: MGET, DEL, EXISTS or UNLINK with a count n <= 64 followed by n     *)
(* complete keys is complete with argc = n, args[i] the i-th key (offset   *)
(* and length) and pos advanced by 4 + 2 + the sum of 2 + keylen_i.        *)
C15_KeyList ==
    (/\ calls > 0
     /\ Room >= 6
     /\ OpcodeAt \in {RESPB_OP_MGET, RESPB_OP_DEL, RESPB_OP_EXISTS, RESPB_OP_UNLINK}) =>
        LET n == read_u16_be(parser.buffer, pos_before + 4)
            first == pos_before + 6
        IN  (n <= RESPB_MAX_ARGS /\ KeyOffset(parser.buffer, first, n) >= 0) =>
                /\ result = 1
                /\ cmd.argc = n
                /\ \A i \in 0..(n - 1) :
                       LET p == KeyOffset(parser.buffer, first, i)
                       IN  cmd.args[i] = [data |-> p + 2,
                                          len |-> read_u16_be(parser.buffer, p)]
                /\ parser.pos = KeyOffset(parser.buffer, first, n)

(* UNLINK of the keys "k", "", "vw": three arguments, 15 bytes. *)
C15_UnlinkThreeKeys ==
    /\ calls = 1
    /\ parser.buffer = FrameKeyList(RESPB_OP_UNLINK, 3, <<KeyK, <<>>, ValV>>)
    /\ result = 1
    /\ cmd.argc = 3
    /\ cmd.args[2] = [data |-> 13, len |-> 2]
    /\ parser.pos = 15

(* C16: respb_parse_command is a function of the buffer and pos: the same  *)
(* call made with a command record of different prior content returns the  *)
(* same value, leaves the same pos, and the two records are equal in       *)
(* opcode, mux_id, argc, args[0..argc), raw_payload, raw_payload_len,      *)
(* module_subcommand, module_id, command_id, resp_length and resp_data.    *)
C16_SameWhateverTheRecordHeld ==
    calls > 0 =>
        /\ twin.ret = result
        /\ twin.pos = parser.pos
        /\ twin.cmd.opcode = cmd.opcode
        /\ twin.cmd.mux_id = cmd.mux_id
        /\ twin.cmd.argc = cmd.argc
        /\ \A i \in 0..(RESPB_MAX_ARGS - 1) : i < cmd.argc => twin.cmd.args[i] = cmd.args[i]
        /\ twin.cmd.raw_payload = cmd.raw_payload
        /\ twin.cmd.raw_payload_len = cmd.raw_payload_len
        /\ twin.cmd.module_subcommand = cmd.module_subcommand
        /\ twin.cmd.module_id = cmd.module_id
        /\ twin.cmd.command_id = cmd.command_id
        /\ twin.cmd.resp_length = cmd.resp_length
        /\ twin.cmd.resp_data = cmd.resp_data

(* A complete GET frame parsed into two records: same return value, pos    *)
(* and argument, module_id as each record held it before.                  *)
C16_GetKeepsStaleModuleId ==
    /\ calls = 1
    /\ parser.buffer = FrameGET
    /\ result = 1
    /\ twin.ret = 1
    /\ twin.pos = parser.pos
    /\ twin.cmd.args[0] = cmd.args[0]
    /\ cmd.module_id # twin.cmd.module_id

(* The last call was made on a client as valkey_client_init leaves it:     *)
(* read_flags without the authentication and replication bits.             *)
FreshClient ==
    /\ ~HasFlag(client.read_flags, READ_FLAGS_AUTH_REQUIRED)
    /\ ~HasFlag(client.read_flags, READ_FLAGS_REPLICATED)

(* C17: for a fresh client whose buffer starts with a well-formed command  *)
(* of N >= 1 bulk strings, valkey_parse_command returns 1 with argc = N,   *)
(* argv[i] equal to the i-th bulk body, and qb_pos advanced by the         *)
(* command's length in bytes.                                              *)
C17_WellFormedCommand ==
    (stage = "resp_check" /\ calls = 1 /\ wellformed # <<>> /\ FreshClient) =>
        /\ result = 1
        /\ client.argc = Len(wellformed[1])
        /\ client.argv = wellformed[1]
        /\ client.qb_pos = client_before.qb_pos + Len(Multibulk(wellformed[1]))

(* A command of one 32768-byte argument that ends the buffer: parsed, the  *)
(* argument is right, qb_pos is 0 and the query buffer is empty.           *)
C17_BigArgumentLeavesPosZero ==
    /\ stage = "resp_check"
    /\ calls = 1
    /\ FreshClient
    /\ wellformed = <<<<Filler(PROTO_MBULK_BIG_ARG)>>>>
    /\ result = 1
    /\ client.argc = 1
    /\ client.argv = wellformed[1]
    /\ client.qb_pos = 0
    /\ client.querybuf = <<>>

LineEnd(p) == memchr(client_before.querybuf, p, 13)
WholeLine(p) == LineEnd(p) # -1 /\ LineEnd(p) + 1 < Len(client_before.querybuf)
LineText(p) == SubSeq(client_before.querybuf, p + 2, LineEnd(p))
AfterLine(p) == LineEnd(p) + 2

(* A length that is not a well-formed decimal or does not fit long long,   *)
(* is negative, or is over the limit (INT_MAX for a multibulk count,       *)
(* 512 MiB for a bulk length).                                             *)
InvalidCount(text) ==
    LET r == string2ll(text) IN ~r.ok \/ r.ll < 0 \/ r.over
InvalidBulkLength(text) ==
    LET r == string2ll(text) IN ~r.ok \/ r.ll < 0 \/ r.over \/ r.ll > 536870912

(* C19: a call that reads an invalid multibulk count returns -1 with the   *)
(* invalid-multibulk-length flag set; a call that reads a valid count and  *)
(* then a bulk header returns -1 with the unexpected-character flag when   *)
(* the header's first byte is not '$', and with the invalid-bulk-length    *)
(* flag when its length is invalid (for a client that is not a             *)
(* replication link and passes the authentication limit on the count).     *)
C19_InvalidLengthIsFatal ==
    (/\ stage = "resp_check"
     /\ client_before.multibulklen = 0
     /\ client_before.first = 42
     /\ WholeLine(client_before.qb_pos)) =>
        LET p == client_before.qb_pos
            count == string2ll(LineText(p))
            q == AfterLine(p)
        IN  IF InvalidCount(LineText(p))
            THEN /\ result = -1
                 /\ HasFlag(client.read_flags, READ_FLAGS_ERROR_INVALID_MULTIBULK_LEN)
            ELSE (/\ count.ll >= 1
                  /\ HasFlag(client.read_flags, READ_FLAGS_AUTH_REQUIRED) => count.ll <= 10
                  /\ ~HasFlag(client.read_flags, READ_FLAGS_REPLICATED)
                  /\ WholeLine(q)) =>
                     /\ Byte(client_before.querybuf, q) # 36 =>
                            /\ result = -1
                            /\ HasFlag(client.read_flags,
                                       READ_FLAGS_ERROR_MBULK_UNEXPECTED_CHARACTER)
                     /\ (Byte(client_before.querybuf, q) = 36
                           /\ InvalidBulkLength(LineText(q))) =>
                            /\ result = -1
                            /\ HasFlag(client.read_flags,
                                       READ_FLAGS_ERROR_MBULK_INVALID_BULK_LEN)

(* "*-1\r\n" given to a fresh client: the call returns 0, no error flag is *)
(* set, and the line is consumed.                                          *)
C19_NegativeCountReturnsZero ==
    /\ stage = "resp_check"
    /\ calls = 1
    /\ client_before.querybuf = <<42, 45, 49, 13, 10>>
    /\ result = 0
    /\ client.read_flags = READ_FLAGS_PARSING_NEGATIVE_MBULK_LEN
    /\ client.qb_pos = 5

(* C20: with READ_FLAGS_AUTH_REQUIRED set, a call that reads a multibulk   *)
(* count greater than 10, or a count within the limit and then a first     *)
(* bulk length greater than 16384, returns -1 and creates no argument.     *)
C20_UnauthenticatedLimits ==
    (/\ stage = "resp_check"
     /\ HasFlag(client.read_flags, READ_FLAGS_AUTH_REQUIRED)
     /\ client_before.multibulklen = 0
     /\ client_before.first = 42
     /\ WholeLine(client_before.qb_pos)
     /\ ~InvalidCount(LineText(client_before.qb_pos))) =>
        LET p == client_before.qb_pos
            count == string2ll(LineText(p))
            q == AfterLine(p)
            len == string2ll(LineText(q))
        IN  /\ count.ll > 10 => result = -1 /\ client.argc = 0
            /\ (/\ count.ll >= 1
                /\ count.ll <= 10
                /\ WholeLine(q)
                /\ Byte(client_before.querybuf, q) = 36
                /\ len.ok
                /\ len.ll > 16384) => result = -1 /\ client.argc = 0

(* "*11\r\n" and 11 empty bulk strings given to a client with              *)
(* READ_FLAGS_AUTH_REQUIRED: the call returns 0 with the                   *)
(* unauthenticated-multibulk flag set, qb_pos still 0 and no argument.     *)
C20_ElevenArgumentsReturnZero ==
    /\ stage = "resp_check"
    /\ calls = 1
    /\ wellformed # <<>>
    /\ Len(wellformed[1]) = 11
    /\ HasFlag(client.read_flags, READ_FLAGS_AUTH_REQUIRED)
    /\ HasFlag(client.read_flags, READ_FLAGS_ERROR_UNAUTHENTICATED_MULTIBULK_LEN)
    /\ result = 0
    /\ client.qb_pos = 0
    /\ client.argc = 0

(* The parse state Initial of the RESP parser. *)
InitialState(multibulklen, bulklen, reqtype) ==
    multibulklen = 0 /\ bulklen = -1 /\ reqtype = 0

(* C21: whenever valkey_parse_command has returned 1, the client's parse   *)
(* state is Initial (multibulklen == 0, bulklen == -1, reqtype == 0), and  *)
(* it still is when the caller has cleared argc for the next call.         *)
C21_CompleteIsInitial ==
    (stage \in {"resp_check", "resp_call"} /\ calls > 0 /\ result = 1) =>
        InitialState(client.multibulklen, client.bulklen, client.reqtype)

(* A second command of the buffer has been parsed to the end: the call     *)
(* started in Initial behind the first command and returned 1.             *)
C21_SecondCommandComplete ==
    /\ stage = "resp_check"
    /\ calls = 2
    /\ result = 1
    /\ client_before.qb_pos > 0
    /\ InitialState(client_before.multibulklen, client_before.bulklen, client_before.reqtype)
    /\ client.argc = 2
    /\ InitialState(client.multibulklen, client.bulklen, client.reqtype)

(* C22: a call that starts in Initial with a first unread byte that is not *)
(* '*' returns -1 and consumes nothing: qb_pos, the query buffer and argc  *)
(* are as before the call.                                                 *)
C22_NotMultibulkIsError ==
    (/\ stage = "resp_check"
     /\ InitialState(client_before.multibulklen, client_before.bulklen, client_before.reqtype)
     /\ client_before.first # -1
     /\ client_before.first # 42) =>
        /\ result = -1
        /\ client.qb_pos = client_before.qb_pos
        /\ client.querybuf = client_before.querybuf
        /\ client.argc = client_before.argc

(* Behind a complete command the buffer goes on with "P\r\n": the second   *)
(* call returns -1 and leaves qb_pos at the 'P'.                           *)
C22_InlineBehindACommand ==
    /\ stage = "resp_check"
    /\ calls = 2
    /\ client_before.qb_pos > 0
    /\ client_before.first = 80
    /\ client_before.reqtype = 0
    /\ result = -1
    /\ client.qb_pos = client_before.qb_pos
    /\ client.argc = 0

(* C23: latency_sample_count never exceeds MAX_LATENCY_SAMPLES, whatever   *)
(* calls of benchmark_metrics_init and benchmark_record_latency were made, *)
(* and no call stores at an index of latency_samples that is               *)
(* MAX_LATENCY_SAMPLES or more.                                            *)
C23_SamplesCapped ==
    /\ metrics.latency_sample_count <= MAX_LATENCY_SAMPLES
    /\ Len(metrics.latency_samples) <= MAX_LATENCY_SAMPLES
    /\ last_store < MAX_LATENCY_SAMPLES

(* benchmark_record_latency was called with the samples full: the count    *)
(* is still MAX_LATENCY_SAMPLES and the call stored nothing.               *)
C23_CallAtTheCap ==
    /\ stage = "metrics"
    /\ calls > 0
    /\ metrics.latency_sample_count = MAX_LATENCY_SAMPLES
    /\ last_store = -1

(* The sum of the stored samples latency_samples[0..latency_sample_count). *)
StoredSum == SumOf(metrics.latency_samples, 1, metrics.latency_sample_count)

(* C24: total_latency_ns is the sum of the stored samples after any        *)
(* sequence of benchmark_record_latency calls, and the avg_latency_ns that *)
(* benchmark_compute_percentiles computes is their mean.                   *)
C24_TotalIsSumOfStored ==
    /\ metrics.total_latency_ns = StoredSum
    /\ (stage = "metrics_done" /\ metrics.latency_sample_count > 0) =>
           metrics.avg_latency_ns = StoredSum \div metrics.latency_sample_count

(* A latency recorded with the samples full: nothing was stored and the    *)
(* total is larger than the sum of the stored samples.                     *)
C24_TotalCountsDroppedSample ==
    /\ stage = "metrics"
    /\ metrics.latency_sample_count = MAX_LATENCY_SAMPLES
    /\ last_store = -1
    /\ metrics.total_latency_ns > StoredSum

(* C25: after benchmark_compute_percentiles over at least 100 samples,     *)
(* p50 <= p90 <= p99, min_latency_ns <= p50 and p99 <= max_latency_ns.     *)
C25_PercentilesOrdered ==
    (stage = "metrics_done" /\ metrics.latency_sample_count >= 100) =>
        /\ metrics.p50_latency_ns <= metrics.p90_latency_ns
        /\ metrics.p90_latency_ns <= metrics.p99_latency_ns
        /\ metrics.min_latency_ns <= metrics.p50_latency_ns
        /\ metrics.p99_latency_ns <= metrics.max_latency_ns

(* Percentiles computed over 101 samples that were not recorded in order:  *)
(* the three percentiles differ.                                           *)
C25_ThreeDifferentPercentiles ==
    /\ stage = "metrics_done"
    /\ metrics.latency_sample_count = NearHundred + MaxRecords
    /\ metrics.latency_sample_count >= 100
    /\ metrics.min_latency_ns < metrics.p50_latency_ns
    /\ metrics.p50_latency_ns < metrics.p90_latency_ns
    /\ metrics.p90_latency_ns < metrics.p99_latency_ns

(* The stages of benchmark_resp_parsing. *)
InRespBenchmark == stage \in {"resp_iter", "resp_loop", "resp_returned"}

(* The run replays a synthetic workload. *)
Synthetic == config.workload_type # WORKLOAD_FILE

(* C26: replaying a synthetic workload of any type and target size through *)
(* valkey_parse_command, argc cleared after each command, never returns    *)
(* an error: every command up to the end of the buffer is complete.        *)
C26_SyntheticNeverErrors ==
    (Synthetic /\ InRespBenchmark) => result # -1

(* C26: a large-values workload of two commands has been replayed and the  *)
(* call on its second command returned an error: its key is "largekey61",  *)
(* ten bytes behind the header "$9".                                       *)
C26_SecondLargeKeyErrors ==
    /\ config.workload_type = WORKLOAD_LARGE_VALUES
    /\ Len(gen.ends) = 2
    /\ stage = "resp_returned"
    /\ result = -1
    /\ bench.calls = 2
    /\ metrics.commands_processed = 1
    /\ SubSeq(wl.data, gen.ends[1] + 18, gen.ends[1] + 27)
           = <<108, 97, 114, 103, 101, 107, 101, 121, 54, 49>>

(* A generated workload is made of whole commands: the commands appended   *)
(* lie end to end from the start of the data to its size.                  *)
WholeCommands ==
    /\ wl.size = Len(wl.data)
    /\ wl.size = (IF gen.ends = <<>> THEN 0 ELSE gen.ends[Len(gen.ends)])
    /\ \A i \in 1..Len(gen.ends) :
           LET from == IF i = 1 THEN 0 ELSE gen.ends[i - 1]
           IN  /\ from < gen.ends[i]
               /\ wl.data[from + 1] = 42
               /\ SubSeq(wl.data, gen.ends[i] - 1, gen.ends[i]) = CRLF

(* C27: workload_generate_synthetic never writes past the target: at every *)
(* step of the generation, and in the workload it returns, size is at most *)
(* target_size and the data holds whole commands only.                     *)
C27_WithinTarget ==
    (Synthetic /\ wl.ptr # 0) => (wl.size <= gen.target_size /\ WholeCommands)

(* C27: the generation has returned a workload of two commands or more     *)
(* with room left for less than one more command.                          *)
C27_StoppedBeforeTheTarget ==
    /\ Synthetic
    /\ stage = "run_resp"
    /\ Len(gen.ends) >= 2
    /\ wl.size < gen.target_size
    /\ wl.size + Len(CommandText(config.workload_type, wl.size, gen.cmd_count))
           > gen.target_size

RECURSIVE AllCommands(_)
(* The RESP text of the commands cmds in a row. *)
AllCommands(cmds) ==
    IF cmds = <<>> THEN <<>> ELSE Multibulk(Head(cmds)) \o AllCommands(Tail(cmds))

(* The RESP workload file holds complete well-formed commands and nothing  *)
(* else, one at least.                                                     *)
WholeCommandsFile ==
    /\ config.workload_type = WORKLOAD_FILE
    /\ wellformed # <<>>
    /\ config.resp_workload_file.bytes = AllCommands(wellformed)

(* An argument of the file is PROTO_MBULK_BIG_ARG bytes long or longer. *)
HasBigArgument ==
    \E i \in 1..Len(wellformed) : \E j \in 1..Len(wellformed[i]) :
        Len(wellformed[i][j]) >= PROTO_MBULK_BIG_ARG

(* C28: for a workload of k complete well-formed commands, arguments of    *)
(* 32768 bytes and more included, benchmark_resp_parsing with iterations   *)
(* = n returns success with commands_processed = n * k.                    *)
C28_ReplaysEveryIteration ==
    (stage = "resp_returned" /\ WholeCommandsFile)
        => /\ bench.ret = 1
           /\ metrics.commands_processed = config.iterations * Len(wellformed)

(* C28: a run of two iterations over a file of one command whose only      *)
(* argument is a big one has returned success with one command counted:    *)
(* the first iteration left the query buffer empty.                        *)
C28_SecondIterationParsesNothing ==
    /\ stage = "resp_returned"
    /\ WholeCommandsFile
    /\ HasBigArgument
    /\ Len(wellformed) = 1
    /\ config.iterations = 2
    /\ bench.ret = 1
    /\ client.querybuf = <<>>
    /\ metrics.commands_processed = 1

(* C29: a parse call that returns -1 ends the run: the benchmark function  *)
(* has returned 0 with that call, the only step left is run_benchmark      *)
(* returning 0, and no command is parsed or counted from then on.          *)
C29_ErrorEndsTheRun ==
    [][result = -1 =>
           /\ bench.ret = 0
           /\ bench'.calls = bench.calls
           /\ metrics'.commands_processed = metrics.commands_processed
           /\ stage' = "run_done"
           /\ run_ret' = 0]_vars

(* C29: run_benchmark has returned 0 after an error behind a complete      *)
(* command in the first of two iterations.                                 *)
C29_FailedInTheFirstIteration ==
    /\ stage = "run_done"
    /\ result = -1
    /\ run_ret = 0
    /\ config.iterations = 2
    /\ bench.iter = 0
    /\ bench.calls = 2
    /\ metrics.commands_processed = 1

(* The objects the client's argv[0..argc) point to. *)
Owned == {heap.argv[i] : i \in 1..Len(heap.argv)}

(* C30: every argument object parseMultibulk created has refcount 1 while  *)
(* the client's argv holds it and is released exactly once: no object is   *)
(* freed twice or given to decrRefCount after it was freed, the objects    *)
(* not freed yet are the argc arguments the client holds, and none is left *)
(* when benchmark_resp_parsing has returned, however the run ended.        *)
C30_ArgumentsReleasedOnce ==
    /\ \A o \in 1..Len(heap.objs) :
           /\ ~heap.objs[o].misused
           /\ heap.objs[o].freed <= 1
           /\ heap.objs[o].refcount = (IF o \in Owned THEN 1 ELSE 0)
           /\ heap.objs[o].freed = (IF o \in Owned THEN 0 ELSE 1)
    /\ stage \in {"resp_iter", "resp_loop"} => Len(heap.argv) = client.argc
    /\ ~(stage \in {"resp_iter", "resp_loop"}) => heap.argv = <<>>

(* C30: a run of two iterations has returned success after each iteration  *)
(* ended in an incomplete command that had stored an argument: the first   *)
(* was released when the second iteration began, the second by             *)
(* valkey_client_free.                                                     *)
C30_PartialArgvReleased ==
    /\ stage = "resp_returned"
    /\ bench.ret = 1
    /\ result = 0
    /\ config.iterations = 2
    /\ client.argc = 1
    /\ client.multibulklen > 0
    /\ Len(heap.objs) = 2
    /\ \A o \in 1..Len(heap.objs) : heap.objs[o].freed = 1

(* Both protocols are enabled. *)
BothEnabled == config.bench_resp = 1 /\ config.bench_respb = 1

(* C31: when both protocols are enabled, a run_benchmark that returns      *)
(* success has run the RESP benchmark, then the RESPB benchmark, and has   *)
(* emitted the comparison, for file and synthetic workloads alike.         *)
C31_BothProtocolsRun ==
    (stage = "run_done" /\ run_ret = 1 /\ BothEnabled)
        => out = <<"RESP", "RESPB", "comparison">>

(* C31: a run over a synthetic workload with both protocols enabled has    *)
(* returned success with the RESP benchmark alone run: the RESPB workload  *)
(* is the RESP workload itself.                                            *)
C31_SyntheticSkipsRespb ==
    /\ stage = "run_done"
    /\ run_ret = 1
    /\ BothEnabled
    /\ Synthetic
    /\ wlb.ptr = wl.ptr
    /\ metrics.commands_processed > 0
    /\ out = <<"RESP">>

(* The command the last call began at, for a call that began at a command  *)
(* of the well-formed input: its number in wellformed (0 if there is none) *)
CommandBegun ==
    IF client_before.multibulklen # 0 \/ wellformed = <<>> THEN 0
    ELSE IF client_before.qb_pos = 0 THEN 1
    ELSE IF Len(wellformed) >= 2
            /\ client_before.qb_pos = Len(Multibulk(wellformed[1])) THEN 2
    ELSE 0

(* What C32 says of a complete call on the command bodies that began at    *)
(* from in the buffer: the arguments are the bodies; when the last one is  *)
(* PROTO_MBULK_BIG_ARG bytes or longer, the client is not replicated and   *)
(* the buffer ends with it, the buffer was given to the argument and an    *)
(* empty one is in its place with qb_pos = 0; otherwise the buffer is as   *)
(* it was and qb_pos is behind the command.                                *)
StoredAs(bodies, from) ==
    /\ client.argv = bodies
    /\ client.argc = Len(bodies)
    /\ IF /\ ~HasFlag(client_before.read_flags, READ_FLAGS_REPLICATED)
          /\ Len(bodies[Len(bodies)]) >= PROTO_MBULK_BIG_ARG
          /\ Len(client_before.querybuf) = from + Len(Multibulk(bodies))
       THEN client.querybuf = <<>> /\ client.qb_pos = 0
       ELSE /\ client.querybuf = client_before.querybuf
            /\ client.qb_pos = from + Len(Multibulk(bodies))

(* C32: a bulk argument of 32768 bytes or more that is all the query       *)
(* buffer holds behind its length line, in a client that is not            *)
(* replicated, is stored as the query buffer itself without its CRLF, and  *)
(* a fresh empty buffer with qb_pos = 0 replaces it; every other argument  *)
(* is a copy of its L bytes and qb_pos advances by L + 2.                  *)
C32_BigArgumentShortcut ==
    (stage = "resp_check" /\ result = 1 /\ CommandBegun > 0)
        => StoredAs(wellformed[CommandBegun], client_before.qb_pos)

(* C32: a call has stored the query buffer as the second argument of a     *)
(* command, 32768 bytes long.                                              *)
C32_BufferBecameTheArgument ==
    /\ stage = "resp_check"
    /\ result = 1
    /\ CommandBegun = 1
    /\ client.argc = 2
    /\ Len(client.argv[2]) = PROTO_MBULK_BIG_ARG
    /\ client.argv[2] = SubSeq(client_before.querybuf, 20, 19 + PROTO_MBULK_BIG_ARG)
    /\ client.querybuf = <<>>
    /\ client.qb_pos = 0

(* C33: for the opcodes with a case of their own in the serializer (module *)
(* and passthrough frames apart) and arguments whose lengths fit a 2-byte  *)
(* prefix, whenever respb_serialize_command returns n > 0 the parser       *)
(* applied to those n bytes returns complete with                          *)
(* pos = n: the serializer emits one whole frame of the parser's shape.    *)
C33_SerializedFrameParses ==
    (stage = "parse" /\ calls = 1 /\ out_n > 0
       /\ src.opcode \in SerializerOpcodes \ {RESPB_OP_MODULE, RESPB_OP_RESP_PASSTHROUGH}
       /\ \A j \in 0..(src.argc - 1) : src.args[j].len <= 65535)
        => (result = 1 /\ parser.pos = out_n)

(* C33: an HSET of a key and one field/value pair was serialized into 20   *)
(* bytes and the parser consumed the 20 bytes as one complete frame.       *)
C33_HsetFrameParsed ==
    /\ stage = "parse"
    /\ calls = 1
    /\ src.opcode = RESPB_OP_HSET
    /\ src.argc = 3
    /\ \A j \in 0..2 : src.args[j].len = 2
    /\ out_n = 20
    /\ result = 1
    /\ parser.pos = 20

(* C34: no request opcode constant equals a response opcode constant, the  *)
(* request opcode constants are pairwise distinct (as many values as       *)
(* names), 0xF000 and 0xFFFF are the module and the passthrough opcode and *)
(* nothing else, and the request parser completes a frame only for a       *)
(* request opcode.                                                         *)
C34_OpcodeSpacesDisjoint ==
    /\ RequestOpcodes \cap ResponseOpcodes = {}
    /\ Cardinality(RequestOpcodes) = RequestOpcodeNames
    /\ RESPB_OP_MODULE = 61440
    /\ RESPB_OP_RESP_PASSTHROUGH = 65535
    /\ \A op \in (RequestOpcodes \cup ResponseOpcodes)
                     \ {RESPB_OP_MODULE, RESPB_OP_RESP_PASSTHROUGH} :
           op \notin {61440, 65535}
    /\ (stage = "parse" /\ calls > 0 /\ result = 1) => cmd.opcode \notin ResponseOpcodes

(* C34: the parser was given a frame whose opcode is RESPB_RESP_OK and     *)
(* returned an error.                                                      *)
C34_ResponseOpcodeRejected ==
    /\ stage = "parse"
    /\ calls = 1
    /\ cmd.opcode = RESPB_RESP_OK
    /\ result = -1

(* C35: a complete parse of an HSET or HMSET frame yields whole            *)
(* field/value pairs: argc - 1 is even and is twice the number of pairs    *)
(* read into args[], whatever number of pairs the frame declares.          *)
C35_WholePairs ==
    (stage = "parse" /\ calls > 0 /\ result = 1
       /\ cmd.opcode \in {RESPB_OP_HSET, RESPB_OP_HMSET})
        => /\ (cmd.argc - 1) % 2 = 0
           /\ cmd.argc - 1 = Cardinality(written \ {0})

(* C35: an HSET frame that declares 31 pairs was parsed completely: 31     *)
(* pairs were read into args[1..62] and argc is 64.                        *)
C35_ThirtyOnePairsGiveOddCount ==
    /\ stage = "parse"
    /\ calls = 1
    /\ result = 1
    /\ cmd.opcode = RESPB_OP_HSET
    /\ read_u16_be(parser.buffer, 6) = 31
    /\ written = 0..62
    /\ cmd.argc = 64

(* The opcodes of the serializer's single-key case. *)
SingleKeyOpcodes ==
    {RESPB_OP_GET, RESPB_OP_INCR, RESPB_OP_DECR, RESPB_OP_TTL, RESPB_OP_LLEN, RESPB_OP_SCARD}

(* C36: the length prefix the serializer writes is the number of argument  *)
(* bytes it copies behind it, and an argument whose length does not fit    *)
(* the prefix makes it return 0; stated for the key of the single-key      *)
(* case, whose prefix is at offset 4.                                      *)
C36_PrefixIsTheLengthCopied ==
    (stage # "serialize" /\ src.opcode \in SingleKeyOpcodes /\ src.argc >= 1)
        => IF src.args[0].len > 65535 THEN out_n = 0
           ELSE out_n > 0 =>
                    /\ read_u16_be(wire, 4) = src.args[0].len
                    /\ SubSeq(wire, 7, 6 + src.args[0].len) = src.args[0].data
                    /\ out_n = 6 + src.args[0].len

(* C36: a GET whose key is 65536 bytes long was serialized: the call       *)
(* returned 65542, the prefix written is 00 00 and the 65536 bytes stand   *)
(* behind it.                                                              *)
C36_TruncatedPrefixWritten ==
    /\ stage = "init"
    /\ src.opcode = RESPB_OP_GET
    /\ src.argc = 1
    /\ src.args[0].len = 65536
    /\ out_n = 65542
    /\ read_u16_be(wire, 4) = 0
    /\ SubSeq(wire, 7, 65542) = src.args[0].data

(* C37: a valkey_parse_command call made after a call that returned 0, on  *)
(* the query buffer as that call left it, returns 0 again and leaves       *)
(* qb_pos, multibulklen, bulklen and argc as they were.                    *)
C37_IncompleteIsStable ==
    stage = "resp_again" =>
        /\ result = 0
        /\ client.qb_pos = client_before.qb_pos
        /\ client.multibulklen = client_before.multibulklen
        /\ client.bulklen = client_before.bulklen
        /\ client.argc = client_before.argc

(* C37: the buffer is "*0\r\n" and a whole command behind it; the first    *)
(* call returned 0 with qb_pos behind the count line, and the call made    *)
(* again returned 1 with the command that follows.                         *)
C37_SecondCallComplete ==
    /\ stage = "resp_again"
    /\ calls = 2
    /\ Len(client_before.querybuf) > 4
    /\ SubSeq(client_before.querybuf, 1, 4) = <<42, 48, 13, 10>>
    /\ client_before.qb_pos = 4
    /\ client_before.multibulklen = 0
    /\ result = 1
    /\ client.argc = 1
    /\ client.qb_pos = Len(client.querybuf)

(* C38: no call of valkey_parse_command fails an assertion of              *)
(* parseMultibulk, whatever the buffer and however often the caller calls  *)
(* (clearing argc after each complete command).                            *)
C38_AssertionsHold ==
    stage # "resp_abort"

(* C38: the buffer is "*0\r\n$1\r\na\r\n"; the first call returned 0 with  *)
(* qb_pos = 4 and reqtype still PROTO_REQ_MULTIBULK, and the next call     *)
(* failed the assertion that the byte at qb_pos is '*'.                    *)
C38_DollarBehindEmptyCommand ==
    /\ stage = "resp_abort"
    /\ client.querybuf = <<42, 48, 13, 10>> \o Bulk(<<97>>)
    /\ client.qb_pos = 4
    /\ client.reqtype = PROTO_REQ_MULTIBULK
    /\ client.argc = 0
    /\ FailedAssert(client) = 325

(* C39: a first call that returns 1 has read bytes of the form             *)
(* "*<N>\r\n" followed by N times "$<L>\r\n<L bytes>\r\n": the buffer      *)
(* the call started from begins with the arguments it delivered, written   *)
(* out in that form.                                                       *)
C39_CompleteOnlyForGrammar ==
    (stage = "resp_check" /\ calls = 1 /\ result = 1) =>
        LET m == Multibulk(client.argv)
        IN  /\ Len(m) <= Len(client_before.querybuf)
            /\ SubSeq(client_before.querybuf, 1, Len(m)) = m

(* C39: the buffer "*1\r\n$1\r\naXY" was parsed: the call returned 1 with  *)
(* the argument "a" and qb_pos behind the bytes "XY" that stand where      *)
(* "\r\n" is due.                                                          *)
C39_BodyWithoutCrLfAccepted ==
    /\ stage = "resp_check"
    /\ calls = 1
    /\ client_before.querybuf = <<42, 49, 13, 10, 36, 49, 13, 10, 97, 88, 89>>
    /\ result = 1
    /\ client.argv = <<<<97>>>>
    /\ client.qb_pos = 11

(* C40: the replay loops make progress on every pass that stays in the     *)
(* loop: a pass of benchmark_respb_parsing's inner loop that does not      *)
(* break or return moves current_pos forward by at least 4 and not past    *)
(* size, and a pass of benchmark_resp_parsing's inner loop that does not   *)
(* break or return moves qb_pos forward.                                   *)
C40_EveryPassMakesProgress ==
    [][/\ (stage = "respb_loop" /\ stage' = "respb_loop")
              => /\ wlb'.current_pos >= wlb.current_pos + 4
                 /\ wlb'.current_pos <= wlb.size
       /\ (stage = "resp_loop" /\ stage' = "resp_loop")
              => client'.qb_pos > client.qb_pos]_vars

(* C40: a pass of benchmark_resp_parsing's inner loop has parsed a command *)
(* whose last argument is a big one: the call returned 1, the loop goes    *)
(* on, and qb_pos is 0, not behind where the pass started.                 *)
C40_PassLeftPosAtZero ==
    /\ stage = "resp_loop"
    /\ result = 1
    /\ bench.calls > 0
    /\ client_before.qb_pos < Len(client_before.querybuf)
    /\ client.qb_pos = 0
    /\ client.querybuf = <<>>
    /\ client.qb_pos < client.querybuf_peak

(* What makes both loops end: a pass that stays in the loop moves          *)
(* current_pos forward (RESPB), or leaves fewer unread bytes in the query  *)
(* buffer than it found (RESP).                                            *)
LoopVariantsDecrease ==
    [][/\ (stage = "respb_loop" /\ stage' = "respb_loop")
              => /\ wlb'.current_pos >= wlb.current_pos + 4
                 /\ wlb'.current_pos <= wlb.size
       /\ (stage = "resp_loop" /\ stage' = "resp_loop")
              => Len(client'.querybuf) - client'.qb_pos
                     < Len(client.querybuf) - client.qb_pos]_vars
=============================================================================
